---- MODULE Spec2Model ----
(***************************************************************************)
(* word_learn: the spaced-repetition scheduling and session-state engine   *)
(* of the vocabulary bot, modelled at the level of the bot's handlers.     *)
(*                                                                         *)
(* The database tables are the variables.  Every repository / service /    *)
(* handler function is an operator from a database value (the record DB)   *)
(* to a database value, translated from its SQL or Python; a handler       *)
(* action applies the composition of the calls the handler makes.          *)
(*                                                                         *)
(* Time is kept at calendar-day granularity: a date and a timestamp are    *)
(* both the proleptic ordinal of their day (date.toordinal()), so          *)
(* next_date <= now reads next_date <= today.                              *)
(***************************************************************************)
EXTENDS Integers, FiniteSets, Sequences, TLC

\* ------------------------------------------------------------------ bounds
NumChats == 2
MaxWords == 2
MaxDays == 1
MaxAnswers == 1
Today0 == 738900
NumTasks == 2
MaxStageInput == 34
MaxNegStage == 2
MaxStreak == 3
MaxGap == 3
MaxEntries == 2
MaxRemaining == 2
MaxTotal == 2
MaxCalls == 2
\* limit of get_words_to_add (10 in cmd_add_words)
add_words_limit == 2

\* ------------------------------------------------------- program constants
MAX_STAGE == 33
daily_pool_min == 1
daily_pool_max == 2
practice_batch_size == 1
DATE_MAX_ORDINAL == 3652059
TIMEDELTA_MAX_DAYS == 999999999
C_INT_BITS == 31
CONFIDENT_STAGE == 5

Chats == 1..NumChats
NoStage == 0 - 1
NoDate == 0 - 1

Min(a, b) == IF a <= b THEN a ELSE b

\* 2 ** n for n >= 0
RECURSIVE Pow2(_)
Pow2(n) == IF n = 0 THEN 1 ELSE 2 * Pow2(n - 1)

VARIABLES
  today,             \* the calendar day of the clock (datetime.now / date.today)
  nwords,            \* words table: the rows have ids 1..nwords
  practice,          \* word_practice table: sequence of rows, row id = index
  today_practice,    \* today_practice table: set of (word_practice_id, date)
  current_practice,  \* current_practice table: set of (chat_id, word_id)
  stats,             \* current_practice_stats table: set of (chat_id, correct, total)
  results,           \* session_word_results table: set of rows
  streaks,           \* practice_streaks table: set of (chat_id, current_streak, last_active_date)
  call,              \* the last call of a function of the services and what it returned
  skiplist,          \* word_skiplist table: set of (word_id, chat_id)
  dialog,            \* FSM storage of the /addWords dialog, per chat; with the history of the finished dialogs
  reminders,         \* reminders table: set of (chat_id, remind_time, next_remind)
  clock_minute,      \* the time of day of the clock, in minutes (today is its date)
  streak_call,       \* the last call of compute_streak_update and what it returned
  scheduled,         \* the last call of calculate_next_date and what it returned
  review,            \* the calls of calculate_days_until_review made so far
  tasks,             \* the finish callbacks being handled statement by statement
  answers,           \* number of finish callbacks handled so far (bounds the run)
  last               \* history: the handler that last changed a table (or the day) and how it ended

vars == <<today, nwords, practice, today_practice, current_practice, stats,
          results, streaks, answers, tasks, review, scheduled,
          streak_call, call, skiplist, dialog, reminders, clock_minute, last>>

\* The database as one value, for the operators below.
DB == [nwords |-> nwords, practice |-> practice, today_practice |-> today_practice,
       current_practice |-> current_practice, stats |-> stats, results |-> results,
       streaks |-> streaks]

\* ------------------------------------------------- spaced_repetition.py

\* Python integers are unbounded; 2 ** 31 and 2 ** 32 do not fit a 32-bit
\* integer.  A day count is kept in two limbs, hi * 2^LimbBits + lo.
LimbBits == 30
LimbBase == Pow2(LimbBits)
Big(n) == [hi |-> n \div LimbBase, lo |-> n % LimbBase]
BigDouble(x) ==
  LET lo == 2 * x.lo
  IN  [hi |-> 2 * x.hi + (lo \div LimbBase), lo |-> lo % LimbBase]
BigAdd(x, k) ==
  LET lo == x.lo + k
  IN  [hi |-> x.hi + (lo \div LimbBase), lo |-> lo % LimbBase]

\* 2 ** n for n >= 0, in limbs
RECURSIVE BigPow2(_)
BigPow2(n) == IF n = 0 THEN Big(1) ELSE BigDouble(BigPow2(n - 1))

\* 2 ** e: an int for e >= 0, the float 1 / 2^(-e) for e < 0.  The value is
\* days / 2^frac_bits.
PyPow2(e) ==
  IF e >= 0 THEN [days |-> BigPow2(e), frac_bits |-> 0]
  ELSE [days |-> Big(1), frac_bits |-> 0 - e]

\* the draw is made from stage 1 on ("stage > 0")
calculate_days_until_review_drawfrom1(stage, r) ==
  LET s == Min(stage, MAX_STAGE)
  IN  IF s = 0 THEN [days |-> Big(0), frac_bits |-> 0, draws |-> 0]
      ELSE LET diff_days == PyPow2(s - 1)
           IN  IF s > 0
                 THEN [days |-> BigAdd(diff_days.days, r),
                       frac_bits |-> diff_days.frac_bits, draws |-> 1]
                 ELSE [days |-> diff_days.days,
                       frac_bits |-> diff_days.frac_bits, draws |-> 0]

\* r is the outcome random.randint(0, 1) gives when it is called; draws is
\* the number of times it is called.  The stage is capped from above only:
\* for a negative stage 2 ** (stage - 1) is a fraction of a day.
calculate_days_until_review(stage, r) ==
  LET s == Min(stage, MAX_STAGE)
  IN  IF s = 0 THEN [days |-> Big(0), frac_bits |-> 0, draws |-> 0]
      ELSE LET diff_days == PyPow2(s - 1)
           IN  IF s > 1
                 THEN [days |-> BigAdd(diff_days.days, r),
                       frac_bits |-> diff_days.frac_bits, draws |-> 1]
                 ELSE [days |-> diff_days.days,
                       frac_bits |-> diff_days.frac_bits, draws |-> 0]

\* A datetime: value is the ordinal of its date, seconds the time of day,
\* tzinfo the zone it is aware of (NoTz for a naive datetime).
NoTz == "none"
time_min == 0
datetime_combine(d, t) ==
  [error |-> "none", value |-> d, seconds |-> t, tzinfo |-> NoTz]
Raised(e) == [error |-> e, value |-> 0, seconds |-> 0, tzinfo |-> NoTz]

\* base_date + timedelta(days=days): timedelta() raises OverflowError when
\* days does not fit a C int or exceeds 999999999, and the date addition
\* raises OverflowError when the result is after date.max.  A fraction of a
\* day becomes hours of the timedelta, which date + timedelta ignores.
calculate_next_date(base_date, stage, r) ==
  LET res == calculate_days_until_review(stage, r)
      days == IF res.frac_bits > 0 THEN Big(0) ELSE res.days
  IN  IF days.hi >= Pow2(C_INT_BITS - LimbBits)
        THEN Raised("OverflowError")
      ELSE IF days.hi > 0 \/ days.lo > TIMEDELTA_MAX_DAYS
        THEN Raised("OverflowError")
      ELSE IF base_date + days.lo > DATE_MAX_ORDINAL
        THEN Raised("OverflowError")
      ELSE datetime_combine(base_date + days.lo, time_min)

\* calculate_next_date(base_date, stage, tz=tz): the function has the two
\* parameters base_date and stage, so a call that passes tz raises TypeError
\* before the body runs.
call_calculate_next_date(base_date, stage, tz, r) ==
  IF tz # NoTz THEN Raised("TypeError")
  ELSE calculate_next_date(base_date, stage, r)

\* sign slip: the stage is decremented
get_new_stage_correct_signslip(current_stage) == Min(current_stage - 1, MAX_STAGE)

get_new_stage_correct(current_stage) == Min(current_stage + 1, MAX_STAGE)

\* reset to "new" (the stage before any correct answer) instead of "just learned"
get_new_stage_incorrect_zero == Min(0, MAX_STAGE)

get_new_stage_incorrect == 1

\* ------------------------------------------------ practice_repository.py

RowIds(d) == 1..Len(d.practice)

add_word(d) == [d EXCEPT !.nwords = @ + 1]

RECURSIVE add_to_practice(_, _, _, _)
add_to_practice(d, chat_id, word_ids, now) ==
  IF word_ids = <<>> THEN d
  ELSE add_to_practice(
         [d EXCEPT !.practice = Append(@,
            [word_id |-> Head(word_ids), chat_id |-> chat_id, next_date |-> now,
             stage |-> 0, deleted |-> FALSE, consecutive_failures |-> 0])],
         chat_id, Tail(word_ids), now)

\* fetchrow returns one of the matching rows: the set of rows it may return.
get_practice_word(d, chat_id, word_id) ==
  {i \in RowIds(d) : /\ d.practice[i].chat_id = chat_id
                     /\ d.practice[i].word_id = word_id
                     /\ d.practice[i].deleted = FALSE}

\* the UPDATE without its "chat_id = $3"
update_practice_word_anychat(d, chat_id, word_id, stage, next_date) ==
  [d EXCEPT !.practice =
     [i \in RowIds(d) |->
        IF d.practice[i].word_id = word_id
          THEN [d.practice[i] EXCEPT !.stage = stage, !.next_date = next_date]
          ELSE d.practice[i]]]

update_practice_word(d, chat_id, word_id, stage, next_date) ==
  [d EXCEPT !.practice =
     [i \in RowIds(d) |->
        IF d.practice[i].chat_id = chat_id /\ d.practice[i].word_id = word_id
          THEN [d.practice[i] EXCEPT !.stage = stage, !.next_date = next_date]
          ELSE d.practice[i]]]

repo_mark_deleted(d, chat_id, word_id) ==
  [d EXCEPT !.practice =
     [i \in RowIds(d) |->
        IF d.practice[i].chat_id = chat_id /\ d.practice[i].word_id = word_id
          THEN [d.practice[i] EXCEPT !.deleted = TRUE]
          ELSE d.practice[i]]]

get_today_practice(d, chat_id, now) ==
  {tp.word_practice_id : tp \in
     {t \in d.today_practice : /\ t.date = now
                               /\ d.practice[t.word_practice_id].chat_id = chat_id}}

\* SELECT ... ORDER BY RANDOM() LIMIT n: any n of the matching rows.
RandomLimit(S, n) == {T \in SUBSET S : Cardinality(T) = Min(n, Cardinality(S))}

\* the select without its "AND next_date <= $2"
EligibleForPool_anydate(d, chat_id, now) ==
  {i \in RowIds(d) : /\ d.practice[i].chat_id = chat_id
                     /\ d.practice[i].deleted = FALSE}

EligibleForPool(d, chat_id, now) ==
  {i \in RowIds(d) : /\ d.practice[i].chat_id = chat_id
                     /\ d.practice[i].next_date <= now
                     /\ d.practice[i].deleted = FALSE}

\* practice_ids is the outcome of the random select, one of
\* RandomLimit(EligibleForPool(d, chat_id, now), limit).
create_today_practice(d, chat_id, practice_ids, now) ==
  [d EXCEPT !.today_practice =
     @ \cup {[word_practice_id |-> i, date |-> now] : i \in practice_ids}]

InCurrentPractice(d, chat_id) ==
  {cp.word_id : cp \in {x \in d.current_practice : x.chat_id = chat_id}}

\* the query without its "AND wp.deleted = FALSE"
DueInPool_nodeleted(d, chat_id, now) ==
  {i \in RowIds(d) :
     /\ d.practice[i].chat_id = chat_id
     /\ [word_practice_id |-> i, date |-> now] \in d.today_practice
     /\ d.practice[i].next_date <= now}

\* the rows of get_words_to_practice / count_words_to_practice before the
\* current_practice filter: joined to today's pool, due, not deleted
DueInPool(d, chat_id, now) ==
  {i \in RowIds(d) :
     /\ d.practice[i].chat_id = chat_id
     /\ [word_practice_id |-> i, date |-> now] \in d.today_practice
     /\ d.practice[i].next_date <= now
     /\ d.practice[i].deleted = FALSE}

\* the query without its "AND wp.word_id NOT IN (SELECT ... current_practice)"
WordsToPracticeRows_insession(d, chat_id, now) == DueInPool(d, chat_id, now)

\* the rows the query of get_words_to_practice matches before LIMIT
WordsToPracticeRows(d, chat_id, now) ==
  {i \in DueInPool(d, chat_id, now) :
     d.practice[i].word_id \notin InCurrentPractice(d, chat_id)}

get_words_to_practice(d, chat_id, limit, now) ==
  RandomLimit(WordsToPracticeRows(d, chat_id, now), limit)

count_words_to_practice(d, chat_id, now) == Cardinality(DueInPool(d, chat_id, now))

start_practice(d, chat_id, word_ids) ==
  [d EXCEPT !.current_practice =
     @ \cup {[chat_id |-> chat_id, word_id |-> w] : w \in word_ids}]

\* LIMIT 1 without ORDER BY: the set of rows the query may return.
get_next_practice_word(d, chat_id) ==
  {i \in RowIds(d) :
     /\ d.practice[i].chat_id = chat_id
     /\ d.practice[i].word_id \in InCurrentPractice(d, chat_id)
     /\ d.practice[i].deleted = FALSE}

\* the DELETE without its "AND word_id = $2"
remove_from_current_practice_all(d, chat_id, word_id) ==
  [d EXCEPT !.current_practice = {x \in @ : x.chat_id # chat_id}]

remove_from_current_practice(d, chat_id, word_id) ==
  [d EXCEPT !.current_practice = @ \ {[chat_id |-> chat_id, word_id |-> word_id]}]

clear_current_practice(d, chat_id) ==
  [d EXCEPT !.current_practice = {x \in @ : x.chat_id # chat_id}]

get_statistics(d, chat_id) ==
  IF \E s \in d.stats : s.chat_id = chat_id
    THEN CHOOSE s \in d.stats : s.chat_id = chat_id
    ELSE [chat_id |-> chat_id, correct |-> 0, total |-> 0]

increment_statistics(d, chat_id, correct) ==
  LET correct_inc == IF correct THEN 1 ELSE 0
  IN  IF \E s \in d.stats : s.chat_id = chat_id
        THEN [d EXCEPT !.stats =
                {IF s.chat_id = chat_id
                   THEN [s EXCEPT !.correct = @ + correct_inc, !.total = @ + 1]
                   ELSE s : s \in d.stats}]
        ELSE [d EXCEPT !.stats =
                @ \cup {[chat_id |-> chat_id, correct |-> correct_inc, total |-> 1]}]

reset_statistics(d, chat_id) ==
  [d EXCEPT !.stats = {s \in @ : s.chat_id # chat_id}]

save_word_result(d, chat_id, word_id, result, old_stage, new_stage) ==
  [d EXCEPT !.results =
     {x \in @ : ~(x.chat_id = chat_id /\ x.word_id = word_id)}
       \cup {[chat_id |-> chat_id, word_id |-> word_id, result |-> result,
              old_stage |-> old_stage, new_stage |-> new_stage]}]

get_session_results(d, chat_id) == {x \in d.results : x.chat_id = chat_id}

clear_session_results(d, chat_id) ==
  [d EXCEPT !.results = {x \in @ : x.chat_id # chat_id}]

increment_consecutive_failures(d, chat_id, word_id) ==
  [d EXCEPT !.practice =
     [i \in RowIds(d) |->
        IF d.practice[i].chat_id = chat_id /\ d.practice[i].word_id = word_id
          THEN [d.practice[i] EXCEPT !.consecutive_failures = @ + 1]
          ELSE d.practice[i]]]

reset_consecutive_failures(d, chat_id, word_id) ==
  [d EXCEPT !.practice =
     [i \in RowIds(d) |->
        IF d.practice[i].chat_id = chat_id /\ d.practice[i].word_id = word_id
          THEN [d.practice[i] EXCEPT !.consecutive_failures = 0]
          ELSE d.practice[i]]]

count_confident_words(d, chat_id) ==
  Cardinality({i \in RowIds(d) : /\ d.practice[i].chat_id = chat_id
                                 /\ d.practice[i].stage >= CONFIDENT_STAGE
                                 /\ d.practice[i].deleted = FALSE})

\* ---------------------------------------------------------- streaks.py

Max(a, b) == IF a >= b THEN a ELSE b

\* the same-day branch increments like the next-day branch
compute_streak_update_sameday(last_active, current_streak, now) ==
  IF last_active = NoDate THEN [streak |-> 1, last_active |-> now]
  ELSE IF last_active > now
    THEN [streak |-> Max(current_streak, 1), last_active |-> now]
  ELSE IF last_active = now
    THEN [streak |-> Max(current_streak, 1) + 1, last_active |-> now]
  ELSE IF last_active = now - 1
    THEN [streak |-> Max(current_streak, 1) + 1, last_active |-> now]
  ELSE [streak |-> 1, last_active |-> now]

\* a last-active date in the future resets the streak
compute_streak_update_futurereset(last_active, current_streak, now) ==
  IF last_active = NoDate THEN [streak |-> 1, last_active |-> now]
  ELSE IF last_active > now
    THEN [streak |-> 1, last_active |-> now]
  ELSE IF last_active = now
    THEN [streak |-> Max(current_streak, 1), last_active |-> now]
  ELSE IF last_active = now - 1
    THEN [streak |-> Max(current_streak, 1) + 1, last_active |-> now]
  ELSE [streak |-> 1, last_active |-> now]

\* the next-day branch without the floor of 1: current_streak + 1
compute_streak_update_nofloor(last_active, current_streak, now) ==
  IF last_active = NoDate THEN [streak |-> 1, last_active |-> now]
  ELSE IF last_active > now
    THEN [streak |-> Max(current_streak, 1), last_active |-> now]
  ELSE IF last_active = now
    THEN [streak |-> Max(current_streak, 1), last_active |-> now]
  ELSE IF last_active = now - 1
    THEN [streak |-> current_streak + 1, last_active |-> now]
  ELSE [streak |-> 1, last_active |-> now]

\* last_active is NoDate for None
compute_streak_update(last_active, current_streak, now) ==
  IF last_active = NoDate THEN [streak |-> 1, last_active |-> now]
  ELSE IF last_active > now
    THEN [streak |-> Max(current_streak, 1), last_active |-> now]
  ELSE IF last_active = now
    THEN [streak |-> Max(current_streak, 1), last_active |-> now]
  ELSE IF last_active = now - 1
    THEN [streak |-> Max(current_streak, 1) + 1, last_active |-> now]
  ELSE [streak |-> 1, last_active |-> now]

\* what update_streak reads from practice_streaks before it computes
StreakRow(d, chat_id) ==
  LET rows == {s \in d.streaks : s.chat_id = chat_id}
  IN  IF rows = {} THEN [current_streak |-> 0, last_active_date |-> NoDate]
      ELSE LET row == CHOOSE s \in rows : TRUE
           IN  [current_streak |-> row.current_streak,
                last_active_date |-> row.last_active_date]

\* PracticeRepository.update_streak: no handler, service or job calls it.
update_streak(d, chat_id, now) ==
  LET rows == {s \in d.streaks : s.chat_id = chat_id}
      row == CHOOSE s \in rows : TRUE
      upd == compute_streak_update(IF rows = {} THEN NoDate ELSE row.last_active_date,
                                   IF rows = {} THEN 0 ELSE row.current_streak, now)
  IN  [d EXCEPT !.streaks =
         (@ \ rows) \cup {[chat_id |-> chat_id, current_streak |-> upd.streak,
                            last_active_date |-> upd.last_active]}]

\* --------------------------------------------------- insights_generator.py

MILESTONES == <<10, 25, 50, 100, 200, 300, 400, 500, 750, 1000, 1500, 2000, 3000, 5000>>
KNOW_BY_HEART_STAGE == 7
MIN_CONSECUTIVE_FAILURES == 2

\* An Insight: its emoji, and what its text is formatted from.
Insight(emoji, text) == [emoji |-> emoji, text |-> text]

\* the result is <<>> for None
check_perfect_round(st) ==
  IF st.total_count > 0 /\ st.total_correct = st.total_count
    THEN <<Insight("target", <<st.total_correct, st.total_count>>)>>
    ELSE << >>

\* new_stage is NoStage for None
RECURSIVE check_know_by_heart_from(_, _)
check_know_by_heart_from(words, insights) ==
  IF words = << >> THEN insights
  ELSE LET word == Head(words)
       IN  check_know_by_heart_from(
             Tail(words),
             IF /\ word.new_stage # NoStage
                /\ word.new_stage >= KNOW_BY_HEART_STAGE
                /\ word.old_stage < KNOW_BY_HEART_STAGE
               THEN Append(insights, Insight("star", <<word.word_id>>))
               ELSE insights)

check_know_by_heart(st) == check_know_by_heart_from(st.correct_words, << >>)

\* consecutive_failures.get(word.word_id, 0)
RECURSIVE check_struggling_words_from(_, _, _)
check_struggling_words_from(words, consecutive_failures, insights) ==
  IF words = << >> THEN insights
  ELSE LET word == Head(words)
           failures == IF word.word_id \in DOMAIN consecutive_failures
                         THEN consecutive_failures[word.word_id] ELSE 0
       IN  check_struggling_words_from(
             Tail(words), consecutive_failures,
             IF failures >= MIN_CONSECUTIVE_FAILURES
               THEN Append(insights, Insight("bulb", <<word.word_id>>))
               ELSE insights)

check_struggling_words(st, consecutive_failures) ==
  check_struggling_words_from(st.incorrect_words, consecutive_failures, << >>)

\* for milestone in MILESTONES: return at the first one crossed
RECURSIVE check_milestone_from(_, _, _)
check_milestone_from(milestones, confident_count, previous_confident_count) ==
  IF milestones = << >> THEN << >>
  ELSE LET milestone == Head(milestones)
       IN  IF previous_confident_count < milestone /\ milestone <= confident_count
             THEN <<Insight("trophy", <<milestone>>)>>
             ELSE check_milestone_from(Tail(milestones), confident_count,
                                       previous_confident_count)

\* the list is walked from its largest milestone down
check_milestone_descending(confident_count, previous_confident_count) ==
  check_milestone_from([i \in 1..Len(MILESTONES) |-> MILESTONES[Len(MILESTONES) + 1 - i]],
                       confident_count, previous_confident_count)

check_milestone(confident_count, previous_confident_count) ==
  check_milestone_from(MILESTONES, confident_count, previous_confident_count)

\* the milestone insight is put first
generate_insights_milestonefirst(st, consecutive_failures, confident_count, previous_confident_count) ==
  check_milestone(confident_count, previous_confident_count)
    \o check_perfect_round(st)
    \o check_know_by_heart(st)
    \o check_struggling_words(st, consecutive_failures)

generate_insights(st, consecutive_failures, confident_count, previous_confident_count) ==
  check_perfect_round(st)
    \o check_know_by_heart(st)
    \o check_struggling_words(st, consecutive_failures)
    \o check_milestone(confident_count, previous_confident_count)

\* --------------------------------------------------- practice_service.py

\* A service call returns the database it leaves and the exception it
\* raised, if any.
Ok(d) == [error |-> "none", db |-> d]
Raise(e, d) == [error |-> e, db |-> d]

\* the reversed pair is created but not put in the practice set
add_custom_word_oneway(d, chat_id, now) ==
  LET d1 == add_word(d)
      d2 == add_to_practice(d1, chat_id, <<d1.nwords>>, now)
  IN  add_word(d2)

add_custom_word(d, chat_id, now) ==
  LET d1 == add_word(d)
      d2 == add_to_practice(d1, chat_id, <<d1.nwords>>, now)
      d3 == add_word(d2)
  IN  add_to_practice(d3, chat_id, <<d3.nwords>>, now)

get_daily_pool_count == daily_pool_min..daily_pool_max

\* pool_pick and batch_pick are the outcomes of the two random selects.
PoolPicks(d, chat_id, now) ==
  UNION {RandomLimit(EligibleForPool(d, chat_id, now), n) : n \in get_daily_pool_count}

\* the pool is created without looking for today's pool first
EnsurePool_always(d, chat_id, pool_pick, now) ==
  create_today_practice(d, chat_id, pool_pick, now)

\* start_practice_session, lines 108-111: "Ensure daily pool exists"
EnsurePool(d, chat_id, pool_pick, now) ==
  IF get_today_practice(d, chat_id, now) # {} THEN d
  ELSE create_today_practice(d, chat_id, pool_pick, now)

start_practice_session(d, chat_id, pool_pick, batch_pick, now) ==
  LET d1 == EnsurePool(d, chat_id, pool_pick, now)
      word_ids == {d1.practice[i].word_id : i \in batch_pick}
  IN  IF batch_pick # {} THEN start_practice(d1, chat_id, word_ids) ELSE d1

\* pw is the row get_practice_word returned, 0 when it returned None.
mark_correct(d, chat_id, word_id, pw, r, now) ==
  IF pw = 0 THEN Raise("AttributeError", d)
  ELSE
    LET old_stage == d.practice[pw].stage
        new_stage == get_new_stage_correct(old_stage)
        next_date == calculate_next_date(now, new_stage, r)
    IN  IF next_date.error # "none" THEN Raise(next_date.error, d)
        ELSE
          LET d1 == save_word_result(d, chat_id, word_id, "correct", old_stage, new_stage)
              d2 == update_practice_word(d1, chat_id, word_id, new_stage, next_date.value)
              d3 == increment_statistics(d2, chat_id, TRUE)
          IN  Ok(remove_from_current_practice(d3, chat_id, word_id))

mark_incorrect(d, chat_id, word_id, pw, r, now) ==
  IF pw = 0 THEN Raise("AttributeError", d)
  ELSE
    LET old_stage == d.practice[pw].stage
        new_stage == get_new_stage_incorrect
        next_date == calculate_next_date(now, new_stage, r)
    IN  IF next_date.error # "none" THEN Raise(next_date.error, d)
        ELSE
          LET d1 == save_word_result(d, chat_id, word_id, "incorrect", old_stage, new_stage)
              d2 == update_practice_word(d1, chat_id, word_id, new_stage, next_date.value)
              d3 == increment_statistics(d2, chat_id, FALSE)
          IN  Ok(remove_from_current_practice(d3, chat_id, word_id))

\* the deleted word is left in current_practice
mark_deleted_keepsession(d, chat_id, word_id, pw) ==
  IF pw = 0 THEN Raise("AttributeError", d)
  ELSE
    LET old_stage == d.practice[pw].stage
        d1 == save_word_result(d, chat_id, word_id, "deleted", old_stage, NoStage)
        d2 == repo_mark_deleted(d1, chat_id, word_id)
    IN  Ok(d2)

mark_deleted(d, chat_id, word_id, pw) ==
  IF pw = 0 THEN Raise("AttributeError", d)
  ELSE
    LET old_stage == d.practice[pw].stage
        d1 == save_word_result(d, chat_id, word_id, "deleted", old_stage, NoStage)
        d2 == repo_mark_deleted(d1, chat_id, word_id)
    IN  Ok(remove_from_current_practice(d2, chat_id, word_id))

\* ------------------------------------------------------------- handlers

\* sum(1 for w in correct_words if w.old_stage < 5 and w.new_stage is not None
\* and w.new_stage >= 5)
new_confident(d, chat_id) ==
  Cardinality({x \in get_session_results(d, chat_id) :
                 /\ x.result = "correct"
                 /\ x.old_stage < 5
                 /\ x.new_stage # NoStage
                 /\ x.new_stage >= 5})

\* what _show_practice_word hands to generate_insights as the count before
\* the session
finalize_previous_confident_count(d, chat_id) ==
  count_confident_words(d, chat_id) - new_confident(d, chat_id)

\* the session data is cleared without looking at the remaining count
show_practice_word_nocount(d, chat_id, now) ==
  IF get_next_practice_word(d, chat_id) = {}
    THEN clear_session_results(reset_statistics(d, chat_id), chat_id)
    ELSE d

show_practice_word(d, chat_id, now) ==
  IF get_next_practice_word(d, chat_id) = {}
    THEN IF count_words_to_practice(d, chat_id, now) = 0
           THEN clear_session_results(reset_statistics(d, chat_id), chat_id)
           ELSE d
    ELSE d

Actions == {"correct", "delete", "incorrect"}

\* the rows get_practice_word may hand to a mark_* call (0 for None)
PracticeWordPicks(d, chat_id, word_id) ==
  IF get_practice_word(d, chat_id, word_id) = {} THEN {0}
  ELSE get_practice_word(d, chat_id, word_id)

answer(d, chat_id, word_id, action, pw, r, now) ==
  IF action = "correct" THEN mark_correct(d, chat_id, word_id, pw, r, now)
  ELSE IF action = "delete" THEN mark_deleted(d, chat_id, word_id, pw)
  ELSE mark_incorrect(d, chat_id, word_id, pw, r, now)

callback_finish(d, chat_id, word_id, action, pw, r, now) ==
  LET res == answer(d, chat_id, word_id, action, pw, r, now)
  IN  IF res.error # "none" THEN res
      ELSE Ok(show_practice_word(res.db, chat_id, now))

cmd_practice(d, chat_id, pool_pick, batch_pick, now) ==
  LET d1 == start_practice_session(d, chat_id, pool_pick, batch_pick, now)
  IN  IF batch_pick = {} THEN d1 ELSE show_practice_word(d1, chat_id, now)

\* cmd_reset without its reset_statistics call
cmd_reset_keepstats(d, chat_id) == clear_current_practice(d, chat_id)

cmd_reset(d, chat_id) == reset_statistics(clear_current_practice(d, chat_id), chat_id)

cmd_add_word(d, chat_id, now) == add_custom_word(d, chat_id, now)

\* ----------------------------------------------------------- state machine

\* No call of calculate_days_until_review made yet.
NoReview ==
  [stage |-> 0, r |-> 0, days |-> Big(0), frac_bits |-> 0, draws |-> 0,
   calls |-> 0]

\* No call made yet.
NoPureCall == [fn |-> "none"]

\* No /addWords dialog open (the FSM state and data of the chat are empty) and
\* none finished.  chosen_learn and chosen_skip are history: the choices of the
\* dialogs that finished.
NoDialog ==
  [state |-> "none", words |-> << >>, current_index |-> 0,
   words_to_learn |-> << >>, words_to_skip |-> << >>,
   chosen_learn |-> {}, chosen_skip |-> {}]

\* No call of compute_streak_update made yet.
NoStreakCall ==
  [chat |-> 0, last_active |-> NoDate, current_streak |-> 0, now |-> 0,
   streak |-> 0, new_last_active |-> NoDate, calls |-> 0]

\* No call of calculate_next_date made yet.
NoCall ==
  [base_date |-> 0, stage |-> 0, tz |-> NoTz, r |-> 0, calls |-> 0,
   result |-> Raised("none")]

\* A finish callback that has not arrived yet.
IdleTask ==
  [pc |-> "idle", chat |-> 0, word |-> 0, action |-> "none", error |-> "none",
   old_stage |-> 0, new_stage |-> 0, next_date |-> 0,
   before |-> [nwords |-> 0, practice |-> << >>, today_practice |-> {},
               current_practice |-> {}, stats |-> {}, results |-> {},
               streaks |-> {}]]

Store(d) ==
  /\ nwords' = d.nwords
  /\ practice' = d.practice
  /\ today_practice' = d.today_practice
  /\ current_practice' = d.current_practice
  /\ stats' = d.stats
  /\ results' = d.results
  /\ streaks' = d.streaks

\* A word_practice row.
InitRow(c, w, stage, next_date) ==
  [word_id |-> w, chat_id |-> c, next_date |-> next_date, stage |-> stage,
   deleted |-> FALSE, consecutive_failures |-> 0]

\* A database the bot has been running on for a while.  Chat 1 practises
\* words 1, 2 and 3, all due today: word 1 has been answered correctly on
\* its review days up to stage 4, words 2 and 3 were taken from the shared
\* word list (/addwords) and have not been answered yet.  Chat 2 practises
\* the shared word 1 and has pressed its "correct" button until stage 21
\* (the last time today, so it is due in 2^20 days).
AgedPractice ==
  << InitRow(1, 1, 4, Today0), InitRow(1, 2, 0, Today0), InitRow(1, 3, 0, Today0),
     InitRow(2, 1, 21, Today0 + Pow2(20)) >>

\* the words the aged rows refer to
AgedWords == Cardinality({AgedPractice[i].word_id : i \in 1..Len(AgedPractice)})

\* The state after construction (the migrated, empty schema), or the aged
\* database.
Init ==
  /\ today = Today0
  /\ \/ nwords = 0 /\ practice = << >>
     \/ nwords = AgedWords /\ practice = AgedPractice
  /\ today_practice = {}
  /\ current_practice = {}
  /\ stats = {}
  /\ results = {}
  /\ streaks = {}
  /\ answers = 0
  /\ tasks = [t \in 1..NumTasks |-> IdleTask]
  /\ review = NoReview
  /\ scheduled = NoCall
  /\ streak_call = NoStreakCall
  /\ call = NoPureCall
  /\ skiplist = {}
  /\ dialog = [c \in Chats |-> NoDialog]
  /\ reminders = {}
  /\ clock_minute = 0
  /\ last = [op |-> "init", chat |-> 0, word |-> 0, error |-> "none",
             member |-> FALSE]

AddWord(c) ==
  /\ nwords + 2 <= MaxWords
  /\ Store(cmd_add_word(DB, c, today))
  /\ last' = [op |-> "add", chat |-> c, word |-> nwords + 1, error |-> "none",
              member |-> FALSE]
  /\ UNCHANGED <<skiplist, dialog, reminders, clock_minute, call, streak_call, scheduled, review, today, answers, tasks>>

Practice(c) ==
  /\ \E pool_pick \in PoolPicks(DB, c, today) :
       \E batch_pick \in get_words_to_practice(EnsurePool(DB, c, pool_pick, today),
                                               c, practice_batch_size, today) :
         /\ Store(cmd_practice(DB, c, pool_pick, batch_pick, today))
         /\ last' = IF cmd_practice(DB, c, pool_pick, batch_pick, today) = DB
                      THEN last
                    ELSE [op |-> "practice", chat |-> c, word |-> 0,
                          error |-> "none", member |-> FALSE]
  /\ UNCHANGED <<skiplist, dialog, reminders, clock_minute, call, streak_call, scheduled, review, today, answers, tasks>>

\* The answer buttons of a word the chat has been shown stay pressable.
Finish(c, w, action) ==
  /\ answers < MaxAnswers
  /\ \E i \in RowIds(DB) : practice[i].chat_id = c /\ practice[i].word_id = w
  /\ \E pw \in PracticeWordPicks(DB, c, w), r \in {0, 1} :
       LET res == callback_finish(DB, c, w, action, pw, r, today)
       IN  /\ Store(res.db)
           /\ last' = [op |-> action, chat |-> c, word |-> w, error |-> res.error,
                       member |-> w \in InCurrentPractice(DB, c)]
  /\ answers' = answers + 1
  /\ UNCHANGED <<skiplist, dialog, reminders, clock_minute, call, streak_call, scheduled, review, today, tasks>>

Reset(c) ==
  /\ Store(cmd_reset(DB, c))
  /\ last' = IF cmd_reset(DB, c) = DB THEN last
              ELSE [op |-> "reset", chat |-> c, word |-> 0, error |-> "none",
                    member |-> FALSE]
  /\ UNCHANGED <<skiplist, dialog, reminders, clock_minute, call, streak_call, scheduled, review, today, answers, tasks>>

\* The day changes.  Every query joins today_practice on tp.date = today, so
\* the rows of earlier days are never read again; they are dropped here.
Tick ==
  /\ today < Today0 + MaxDays
  /\ today' = today + 1
  /\ last' = [op |-> "tick", chat |-> 0, word |-> 0, error |-> "none",
              member |-> FALSE]
  /\ today_practice' = {tp \in today_practice : tp.date = today'}
  /\ UNCHANGED <<skiplist, dialog, reminders, clock_minute, call, streak_call, scheduled, review, nwords, practice, current_practice, stats, results, streaks,
                 answers, tasks>>

Next ==
  \/ \E c \in Chats : AddWord(c)
  \/ \E c \in Chats : Practice(c)
  \/ \E c \in Chats, w \in 1..nwords, action \in Actions : Finish(c, w, action)
  \/ \E c \in Chats : Reset(c)
  \/ Tick

Spec == Init /\ [][Next]_vars

\* ---------------------------------------------- the session on a review day

\* The day the stage-21 record of the aged database falls due.
ReviewDay == AgedPractice[Len(AgedPractice)].next_date

\* The aged database, untouched until that day.
ReviewDayInit ==
  /\ today = ReviewDay
  /\ nwords = AgedWords /\ practice = AgedPractice
  /\ today_practice = {}
  /\ current_practice = {}
  /\ stats = {}
  /\ results = {}
  /\ streaks = {}
  /\ answers = 0
  /\ tasks = [t \in 1..NumTasks |-> IdleTask]
  /\ review = NoReview
  /\ scheduled = NoCall
  /\ streak_call = NoStreakCall
  /\ call = NoPureCall
  /\ skiplist = {}
  /\ dialog = [c \in Chats |-> NoDialog]
  /\ reminders = {}
  /\ clock_minute = 0
  /\ last = [op |-> "init", chat |-> 0, word |-> 0, error |-> "none",
             member |-> FALSE]

\* The user presses an answer button of the word _show_practice_word has
\* presented.
AnswerPresented(c, action) ==
  /\ \E shown \in get_next_practice_word(DB, c) :
       LET w == practice[shown].word_id
       IN  \E pw \in PracticeWordPicks(DB, c, w), r \in {0, 1} :
             LET res == callback_finish(DB, c, w, action, pw, r, today)
             IN  /\ Store(res.db)
                 /\ last' = [op |-> action, chat |-> c, word |-> w,
                             error |-> res.error, member |-> TRUE]
  /\ UNCHANGED <<skiplist, dialog, reminders, clock_minute, call, streak_call, scheduled, review, today, answers, tasks>>

SessionNext ==
  \/ \E c \in Chats : Practice(c)
  \/ \E c \in Chats, action \in Actions : AnswerPresented(c, action)

\* /practice and answers to the presented words only, on the review day.
SessionSpec == ReviewDayInit /\ [][SessionNext]_vars

\* ------------------------------------- finish callbacks, statement by statement

\* Every repository call of mark_correct / mark_incorrect / mark_deleted is
\* its own statement on its own pooled connection (Database.connection, no
\* transaction), and every await lets another callback run.

\* A finish callback arrives for a word that is in the chat's session; the
\* database of that moment is remembered in `before`.
Submit(t, c, w, action) ==
  /\ tasks[t].pc = "idle"
  /\ \A u \in 1..(t - 1) : tasks[u].pc # "idle"
  /\ w \in InCurrentPractice(DB, c)
  /\ tasks' = [tasks EXCEPT ![t] = [IdleTask EXCEPT !.pc = "read", !.chat = c,
                                    !.word = w, !.action = action, !.before = DB]]
  /\ UNCHANGED <<skiplist, dialog, reminders, clock_minute, call, streak_call, scheduled, review, today, nwords, practice, today_practice, current_practice, stats,
                 results, streaks, answers, last>>

\* practice_word = get_practice_word(...); old_stage, new_stage, next_date
GetPracticeWord(t) ==
  /\ tasks[t].pc = "read"
  /\ \E pw \in PracticeWordPicks(DB, tasks[t].chat, tasks[t].word), r \in {0, 1} :
       LET old_stage == IF pw = 0 THEN NoStage ELSE practice[pw].stage
           new_stage == IF tasks[t].action = "correct"
                          THEN get_new_stage_correct(old_stage)
                          ELSE get_new_stage_incorrect
           next_date == calculate_next_date(today, new_stage, r)
       IN  tasks' = [tasks EXCEPT ![t] =
             IF pw = 0
               THEN [@ EXCEPT !.pc = "failed", !.error = "AttributeError"]
             ELSE IF tasks[t].action = "delete"
               THEN [@ EXCEPT !.pc = "save", !.old_stage = old_stage,
                              !.new_stage = NoStage]
             ELSE IF next_date.error # "none"
               THEN [@ EXCEPT !.pc = "failed", !.error = next_date.error]
             ELSE [@ EXCEPT !.pc = "save", !.old_stage = old_stage,
                            !.new_stage = new_stage, !.next_date = next_date.value]]
  /\ UNCHANGED <<skiplist, dialog, reminders, clock_minute, call, streak_call, scheduled, review, today, nwords, practice, today_practice, current_practice, stats,
                 results, streaks, answers, last>>

SaveWordResult(t) ==
  /\ tasks[t].pc = "save"
  /\ Store(save_word_result(DB, tasks[t].chat, tasks[t].word,
                            IF tasks[t].action = "delete" THEN "deleted"
                            ELSE tasks[t].action,
                            tasks[t].old_stage, tasks[t].new_stage))
  /\ tasks' = [tasks EXCEPT ![t].pc = "update"]
  /\ UNCHANGED <<skiplist, dialog, reminders, clock_minute, call, streak_call, scheduled, review, today, answers, last>>

\* update_practice_word, or mark_deleted for the "delete" button
UpdatePracticeWord(t) ==
  /\ tasks[t].pc = "update"
  /\ Store(IF tasks[t].action = "delete"
             THEN repo_mark_deleted(DB, tasks[t].chat, tasks[t].word)
             ELSE update_practice_word(DB, tasks[t].chat, tasks[t].word,
                                       tasks[t].new_stage, tasks[t].next_date))
  /\ tasks' = [tasks EXCEPT ![t].pc =
                 IF tasks[t].action = "delete" THEN "remove" ELSE "stats"]
  /\ UNCHANGED <<skiplist, dialog, reminders, clock_minute, call, streak_call, scheduled, review, today, answers, last>>

IncrementStatistics(t) ==
  /\ tasks[t].pc = "stats"
  /\ Store(increment_statistics(DB, tasks[t].chat, tasks[t].action = "correct"))
  /\ tasks' = [tasks EXCEPT ![t].pc = "remove"]
  /\ UNCHANGED <<skiplist, dialog, reminders, clock_minute, call, streak_call, scheduled, review, today, answers, last>>

RemoveFromCurrentPractice(t) ==
  /\ tasks[t].pc = "remove"
  /\ Store(remove_from_current_practice(DB, tasks[t].chat, tasks[t].word))
  /\ tasks' = [tasks EXCEPT ![t].pc = "show"]
  /\ UNCHANGED <<skiplist, dialog, reminders, clock_minute, call, streak_call, scheduled, review, today, answers, last>>

ShowPracticeWord(t) ==
  /\ tasks[t].pc = "show"
  /\ Store(show_practice_word(DB, tasks[t].chat, today))
  /\ tasks' = [tasks EXCEPT ![t].pc = "done"]
  /\ UNCHANGED <<skiplist, dialog, reminders, clock_minute, call, streak_call, scheduled, review, today, answers, last>>

\* The statement the callback is about to execute raises (the connection is
\* lost, the statement times out): the exception leaves the handler.
StatementFails(t) ==
  /\ tasks[t].pc \in {"save", "update", "stats", "remove"}
  /\ tasks' = [tasks EXCEPT ![t].pc = "failed", ![t].error = "PostgresError"]
  /\ UNCHANGED <<skiplist, dialog, reminders, clock_minute, call, streak_call, scheduled, review, today, nwords, practice, today_practice, current_practice, stats,
                 results, streaks, answers, last>>

\* /practice runs while no finish callback is being handled.
PracticeIdle(c) ==
  /\ \A t \in 1..NumTasks : tasks[t].pc = "idle"
  /\ Practice(c)

StepNext ==
  \/ \E c \in Chats : PracticeIdle(c)
  \/ \E t \in 1..NumTasks, c \in Chats, w \in 1..nwords, action \in Actions :
       Submit(t, c, w, action)
  \/ \E t \in 1..NumTasks : GetPracticeWord(t)
  \/ \E t \in 1..NumTasks : SaveWordResult(t)
  \/ \E t \in 1..NumTasks : UpdatePracticeWord(t)
  \/ \E t \in 1..NumTasks : IncrementStatistics(t)
  \/ \E t \in 1..NumTasks : RemoveFromCurrentPractice(t)
  \/ \E t \in 1..NumTasks : ShowPracticeWord(t)
  \/ \E t \in 1..NumTasks : StatementFails(t)

StepSpec == Init /\ [][StepNext]_vars

\* --------------------------------------- calculate_days_until_review, alone

CalcInit ==
  /\ today = Today0
  /\ nwords = 0
  /\ practice = << >>
  /\ today_practice = {}
  /\ current_practice = {}
  /\ stats = {}
  /\ results = {}
  /\ streaks = {}
  /\ answers = 0
  /\ tasks = [t \in 1..NumTasks |-> IdleTask]
  /\ review = NoReview
  /\ scheduled = NoCall
  /\ streak_call = NoStreakCall
  /\ call = NoPureCall
  /\ skiplist = {}
  /\ dialog = [c \in Chats |-> NoDialog]
  /\ reminders = {}
  /\ clock_minute = 0
  /\ last = [op |-> "init", chat |-> 0, word |-> 0, error |-> "none",
             member |-> FALSE]

\* calculate_days_until_review(stage) with random.randint patched to return r
CalculateDaysUntilReview(stage, r) ==
  /\ review.calls < MaxCalls
  /\ LET res == calculate_days_until_review(stage, r)
     IN  review' = [stage |-> stage, r |-> r, days |-> res.days,
                    frac_bits |-> res.frac_bits, draws |-> res.draws,
                    calls |-> review.calls + 1]
  /\ UNCHANGED <<skiplist, dialog, reminders, clock_minute, call, streak_call, scheduled, today, nwords, practice, today_practice, current_practice, stats,
                 results, streaks, answers, tasks, last>>

CalcNext ==
  \E stage \in (0 - MaxNegStage)..MaxStageInput, r \in {0, 1} :
    CalculateDaysUntilReview(stage, r)

CalcSpec == CalcInit /\ [][CalcNext]_vars

\* ----------------------------------------------- calculate_next_date, alone

\* datetime.date keeps the proleptic Gregorian calendar: date(y, m, d) and
\* its ordinal (date(1, 1, 1) is day 1).
is_leap(y) == y % 4 = 0 /\ (y % 100 # 0 \/ y % 400 = 0)
days_in_month(y, m) ==
  IF m = 2 THEN (IF is_leap(y) THEN 29 ELSE 28)
  ELSE IF m \in {4, 6, 9, 11} THEN 30 ELSE 31
days_before_year(y) ==
  (y - 1) * 365 + ((y - 1) \div 4) - ((y - 1) \div 100) + ((y - 1) \div 400)
RECURSIVE days_before_month(_, _)
days_before_month(y, m) ==
  IF m = 1 THEN 0 ELSE days_before_month(y, m - 1) + days_in_month(y, m - 1)
ymd2ord(y, m, d) == days_before_year(y) + days_before_month(y, m) + d
ord2ymd(n) ==
  CHOOSE ymd \in ((n \div 366)..(n \div 365 + 1)) \X (1..12) \X (1..31) :
    /\ ymd[3] <= days_in_month(ymd[1], ymd[2])
    /\ ymd2ord(ymd[1], ymd[2], ymd[3]) = n

\* the base dates of the unit tests, the last day of February in a leap year
\* and in a common year, and date.max
BaseDates ==
  {ymd2ord(2024, 1, 15), ymd2ord(2024, 1, 30), ymd2ord(2024, 12, 31),
   ymd2ord(2024, 6, 15), ymd2ord(2024, 2, 28), ymd2ord(2023, 2, 28),
   DATE_MAX_ORDINAL}

Zones == {NoTz, "Europe/Amsterdam", "UTC"}

DateInit ==
  /\ today = Today0
  /\ nwords = 0
  /\ practice = << >>
  /\ today_practice = {}
  /\ current_practice = {}
  /\ stats = {}
  /\ results = {}
  /\ streaks = {}
  /\ answers = 0
  /\ tasks = [t \in 1..NumTasks |-> IdleTask]
  /\ review = NoReview
  /\ scheduled = NoCall
  /\ streak_call = NoStreakCall
  /\ call = NoPureCall
  /\ skiplist = {}
  /\ dialog = [c \in Chats |-> NoDialog]
  /\ reminders = {}
  /\ clock_minute = 0
  /\ last = [op |-> "init", chat |-> 0, word |-> 0, error |-> "none",
             member |-> FALSE]

\* calculate_next_date(base_date, stage) or calculate_next_date(base_date,
\* stage, tz=tz), with random.randint patched to return r
CalculateNextDate(base_date, stage, tz, r) ==
  /\ scheduled.calls = 0
  /\ scheduled' = [base_date |-> base_date, stage |-> stage, tz |-> tz, r |-> r,
                   calls |-> scheduled.calls + 1,
                   result |-> call_calculate_next_date(base_date, stage, tz, r)]
  /\ UNCHANGED <<skiplist, dialog, reminders, clock_minute, call, streak_call, today, nwords, practice, today_practice, current_practice, stats,
                 results, streaks, answers, tasks, review, last>>

DateNext ==
  \E base_date \in BaseDates, stage \in 0..MaxStageInput, tz \in Zones, r \in {0, 1} :
    CalculateNextDate(base_date, stage, tz, r)

DateSpec == DateInit /\ [][DateNext]_vars

\* ------------------------------------------------------- streaks, alone

StreakInit == DateInit

\* compute_streak_update(last_active, current_streak, today)
ComputeStreakUpdate(last_active, current_streak, now) ==
  /\ streak_call.calls = 0
  /\ LET upd == compute_streak_update(last_active, current_streak, now)
     IN  streak_call' = [chat |-> 0, last_active |-> last_active,
                         current_streak |-> current_streak, now |-> now,
                         streak |-> upd.streak, new_last_active |-> upd.last_active,
                         calls |-> 1]
  /\ UNCHANGED <<skiplist, dialog, reminders, clock_minute, call, today, nwords, practice, today_practice, current_practice, stats,
                 results, streaks, answers, tasks, review, scheduled, last>>

StreakCalcNext ==
  \E now \in Today0..(Today0 + MaxGap),
     last_active \in {NoDate} \cup ((Today0 - 1)..(Today0 + MaxGap + 1)),
     current_streak \in 0..MaxStreak :
    ComputeStreakUpdate(last_active, current_streak, now)

StreakCalcSpec == StreakInit /\ [][StreakCalcNext]_vars

\* update_streak(chat_id, today) for the date the caller passes
UpdateStreak(c) ==
  /\ StreakRow(DB, c).current_streak < MaxStreak
  /\ Store(update_streak(DB, c, today))
  /\ LET row == StreakRow(DB, c)
         upd == compute_streak_update(row.last_active_date, row.current_streak, today)
     IN  streak_call' = [chat |-> c, last_active |-> row.last_active_date,
                         current_streak |-> row.current_streak, now |-> today,
                         streak |-> upd.streak, new_last_active |-> upd.last_active,
                         calls |-> 1]
  /\ UNCHANGED <<skiplist, dialog, reminders, clock_minute, call, today, answers, tasks, review, scheduled, last>>

\* k days pass
DaysPass(k) ==
  /\ today + k <= Today0 + MaxGap
  /\ today' = today + k
  /\ UNCHANGED <<skiplist, dialog, reminders, clock_minute, call, nwords, practice, today_practice, current_practice, stats, results,
                 streaks, answers, tasks, review, scheduled, streak_call, last>>

\* The date passed is a day earlier than the one passed before: the clock
\* was set back, or the configured time zone changed.
ClockSetBack ==
  /\ today > Today0
  /\ today' = today - 1
  /\ UNCHANGED <<skiplist, dialog, reminders, clock_minute, call, nwords, practice, today_practice, current_practice, stats, results,
                 streaks, answers, tasks, review, scheduled, streak_call, last>>

StreakNext ==
  \/ \E c \in Chats : UpdateStreak(c)
  \/ \E k \in 1..2 : DaysPass(k)
  \/ ClockSetBack

StreakSpec == StreakInit /\ [][StreakNext]_vars

\* ------------------------------------------------ /addWords dialog

\* the sequences that list the elements of a set, each once
Orderings(S) ==
  {q \in [1..Cardinality(S) -> S] : \A i, j \in 1..Cardinality(S) : q[i] = q[j] => i = j}

\* the words the two NOT IN subqueries leave
WordsAvailable(d, skip, chat_id) ==
  {w \in 1..d.nwords :
     /\ \A i \in RowIds(d) : ~(d.practice[i].chat_id = chat_id /\ d.practice[i].word_id = w)
     /\ [word_id |-> w, chat_id |-> chat_id] \notin skip}

\* the subquery on word_practice looks at records that are not deleted only
get_words_to_add_notdeleted(d, skip, chat_id, limit) ==
  LET available ==
        {w \in 1..d.nwords :
           /\ \A i \in RowIds(d) : ~(/\ d.practice[i].chat_id = chat_id
                                     /\ d.practice[i].word_id = w
                                     /\ d.practice[i].deleted = FALSE)
           /\ [word_id |-> w, chat_id |-> chat_id] \notin skip}
  IN  UNION {Orderings(S) : S \in RandomLimit(available, limit)}

\* ORDER BY RANDOM() LIMIT $2: the lists the query may return
get_words_to_add(d, skip, chat_id, limit) ==
  UNION {Orderings(S) : S \in RandomLimit(WordsAvailable(d, skip, chat_id), limit)}

\* the primary key (word_id, chat_id) makes ON CONFLICT DO NOTHING skip a
\* pair that is there
add_to_skiplist(skip, chat_id, word_ids) ==
  skip \cup {[word_id |-> word_ids[i], chat_id |-> chat_id] : i \in 1..Len(word_ids)}

SeqToSet(q) == {q[i] : i \in 1..Len(q)}

\* What a handler of the dialog leaves: the tables and the FSM storage.
DialogResult(d, skip, dg) == [db |-> d, skiplist |-> skip, dialog |-> dg]

finish_adding(d, skip, dg, chat_id, now) ==
  LET d1 == IF dg.words_to_learn # << >>
              THEN add_to_practice(d, chat_id, dg.words_to_learn, now) ELSE d
      skip1 == IF dg.words_to_skip # << >>
                 THEN add_to_skiplist(skip, chat_id, dg.words_to_skip) ELSE skip
  IN  DialogResult(d1, skip1,
        [NoDialog EXCEPT
           !.chosen_learn = dg.chosen_learn \cup SeqToSet(dg.words_to_learn),
           !.chosen_skip = dg.chosen_skip \cup SeqToSet(dg.words_to_skip)])

\* current_index counts from 0, as in the handler
show_next_word(d, skip, dg, chat_id, now) ==
  IF dg.current_index >= Len(dg.words)
    THEN finish_adding(d, skip, dg, chat_id, now)
    ELSE DialogResult(d, skip, [dg EXCEPT !.state = "choosing"])

\* words is the list get_words_to_add returned
cmd_add_words(d, skip, dg, chat_id, words, now) ==
  IF words = << >> THEN DialogResult(d, skip, dg)
  ELSE show_next_word(d, skip,
         [dg EXCEPT !.words = words, !.current_index = 0,
                    !.words_to_learn = << >>, !.words_to_skip = << >>],
         chat_id, now)

handle_learn(d, skip, dg, chat_id, now) ==
  show_next_word(d, skip,
    [dg EXCEPT !.words_to_learn = Append(@, dg.words[dg.current_index + 1]),
               !.current_index = @ + 1],
    chat_id, now)

handle_skip(d, skip, dg, chat_id, now) ==
  show_next_word(d, skip,
    [dg EXCEPT !.words_to_skip = Append(@, dg.words[dg.current_index + 1]),
               !.current_index = @ + 1],
    chat_id, now)

\* The words table after the import; no chat practises yet, or the aged
\* database, or the aged database after chat 1 deleted its word 2.
DialogInit ==
  /\ today = Today0
  /\ nwords = AgedWords
  /\ \/ practice = << >>
     \/ practice = AgedPractice
     \/ practice = [AgedPractice EXCEPT ![2].deleted = TRUE]
  /\ today_practice = {}
  /\ current_practice = {}
  /\ stats = {}
  /\ results = {}
  /\ streaks = {}
  /\ answers = 0
  /\ tasks = [t \in 1..NumTasks |-> IdleTask]
  /\ review = NoReview
  /\ scheduled = NoCall
  /\ streak_call = NoStreakCall
  /\ call = NoPureCall
  /\ skiplist = {}
  /\ dialog = [c \in Chats |-> NoDialog]
  /\ reminders = {}
  /\ clock_minute = 0
  /\ last = [op |-> "init", chat |-> 0, word |-> 0, error |-> "none",
             member |-> FALSE]

StoreDialog(c, res) ==
  /\ Store(res.db)
  /\ skiplist' = res.skiplist
  /\ dialog' = [dialog EXCEPT ![c] = res.dialog]
  /\ UNCHANGED <<today, answers, tasks, review, scheduled, streak_call, call,
                 reminders, clock_minute, last>>

CmdAddWords(c) ==
  \E words \in get_words_to_add(DB, skiplist, c, add_words_limit) :
    StoreDialog(c, cmd_add_words(DB, skiplist, dialog[c], c, words, today))

HandleLearn(c) ==
  /\ dialog[c].state = "choosing"
  /\ StoreDialog(c, handle_learn(DB, skiplist, dialog[c], c, today))

HandleSkip(c) ==
  /\ dialog[c].state = "choosing"
  /\ StoreDialog(c, handle_skip(DB, skiplist, dialog[c], c, today))

DialogNext ==
  \/ \E c \in Chats : CmdAddWords(c)
  \/ \E c \in Chats : HandleLearn(c)
  \/ \E c \in Chats : HandleSkip(c)

DialogSpec == DialogInit /\ [][DialogNext]_vars

\* ------------------------------------------------ /remind

\* An aware datetime of the zone of the settings ("Europe/Amsterdam"): the
\* date as an ordinal, the time of day in minutes, and the fold.
MinutesPerDay == 1440
DateTime(day, minute, fold) == [day |-> day, minute |-> minute, fold |-> fold]

\* The two changes of the zone's offset in 2024: to summer time on 31 March
\* at 02:00 (the wall times 02:00..02:59 do not exist), back on 27 October at
\* 03:00 (the wall times 02:00..02:59 occur twice).
SpringDay == ymd2ord(2024, 3, 31)
FallDay == ymd2ord(2024, 10, 27)
InShiftHour(dt) == dt.minute >= 120 /\ dt.minute < 180

\* ZoneInfo.utcoffset, in minutes: in the missing hour fold 0 has the offset
\* of before the change, in the repeated hour fold 0 is the first pass.
utcoffset(dt) ==
  IF dt.day < SpringDay \/ (dt.day = SpringDay /\ dt.minute < 120) THEN 60
  ELSE IF dt.day = SpringDay /\ InShiftHour(dt) THEN (IF dt.fold = 0 THEN 60 ELSE 120)
  ELSE IF dt.day < FallDay \/ (dt.day = FallDay /\ dt.minute < 120) THEN 120
  ELSE IF dt.day = FallDay /\ InShiftHour(dt) THEN (IF dt.fold = 0 THEN 120 ELSE 60)
  ELSE 60

\* the instant of an aware datetime, in minutes of UTC
Instant(dt) == dt.day * MinutesPerDay + dt.minute - utcoffset(dt)

\* datetime <= datetime with the same tzinfo compares the wall clocks and
\* ignores the fold
WallBeforeOrAt(a, b) == a.day < b.day \/ (a.day = b.day /\ a.minute <= b.minute)

\* datetime.combine(now.date(), remind_time, tzinfo=tz) has the fold of the
\* time, 0; adding timedelta(days=1) moves the wall clock by one day
calculate_next_reminder(now, remind_time) ==
  LET today_remind == DateTime(now.day, remind_time, 0)
  IN  IF WallBeforeOrAt(today_remind, now)
        THEN DateTime(today_remind.day + 1, today_remind.minute, today_remind.fold)
        ELSE today_remind

\* times of day around the shifted hour, and others
ClockMinutes == {0, 90, 135, 150, 165, 200, 540, 720, 1439}

\* what datetime.now(tz) can return: no time of the missing hour, fold 1 in
\* the second pass of the repeated hour only
NowInputs ==
  {dt \in {DateTime(d, m, f) :
             d \in {Today0, SpringDay - 1, SpringDay, FallDay - 1, FallDay},
             m \in ClockMinutes, f \in {0, 1}} :
     /\ ~(dt.day = SpringDay /\ InShiftHour(dt))
     /\ dt.fold = 1 => (dt.day = FallDay /\ InShiftHour(dt))}

CalculateNextReminder(now, remind_time) ==
  /\ call.fn = "none"
  /\ call' = [fn |-> "calculate_next_reminder", now |-> now,
              remind_time |-> remind_time,
              result |-> calculate_next_reminder(now, remind_time)]
  /\ UNCHANGED <<today, nwords, practice, today_practice, current_practice, stats,
                 results, streaks, answers, tasks, review, scheduled, streak_call,
                 skiplist, dialog, reminders, clock_minute, last>>

ReminderCalcNext ==
  /\ call.fn = "none"
  /\ \E now \in NowInputs, remind_time \in ClockMinutes :
          CalculateNextReminder(now, remind_time)

ReminderCalcSpec == StreakInit /\ [][ReminderCalcNext]_vars

\* ------------------------------------------------ run_reminders.py

\* datetime.now(tz) of the clock of the model
Now == DateTime(today, clock_minute, 0)

\* INSERT ... ON CONFLICT (chat_id) DO UPDATE
set_reminder(rem, chat_id, remind_time, next_remind) ==
  {r \in rem : r.chat_id # chat_id}
    \cup {[chat_id |-> chat_id, remind_time |-> remind_time, next_remind |-> next_remind]}

\* next_remind <= $1 on timestamps with time zone compares instants
get_due_reminders(rem, now) == {r \in rem : Instant(r.next_remind) <= Instant(now)}

cmd_remind(rem, chat_id, parsed_time, now) ==
  set_reminder(rem, chat_id, parsed_time, calculate_next_reminder(now, parsed_time))

\* The loop body calls repository.count_all_due_words for the first due
\* reminder.  PracticeRepository has no such method: the call raises
\* AttributeError before anything is sent or rescheduled, and main() logs
\* the error and sleeps.
process_reminders(rem, now) ==
  IF get_due_reminders(rem, now) = {}
    THEN [error |-> "none", reminders |-> rem, sent |-> {}]
    ELSE [error |-> "AttributeError", reminders |-> rem, sent |-> {}]

\* the times of day at which the model looks, and the one of the reminders
CheckMinutes == {0, 540, 720}
RemindTimes == {540}

CmdRemind(c, parsed_time) ==
  /\ reminders' = cmd_remind(reminders, c, parsed_time, Now)
  /\ UNCHANGED <<today, nwords, practice, today_practice, current_practice, stats,
                 results, streaks, answers, tasks, review, scheduled, streak_call,
                 call, skiplist, dialog, clock_minute, last>>

ProcessReminders ==
  LET res == process_reminders(reminders, Now)
  IN  /\ reminders' = res.reminders
      /\ call' = [fn |-> "process_reminders", now |-> Now,
                  due |-> {r.chat_id : r \in get_due_reminders(reminders, Now)},
                  error |-> res.error, sent |-> res.sent]
      /\ UNCHANGED <<today, nwords, practice, today_practice, current_practice, stats,
                     results, streaks, answers, tasks, review, scheduled, streak_call,
                     skiplist, dialog, clock_minute, last>>

\* the clock moves to the next time of day looked at, or to the next day
TimePasses ==
  /\ IF \E m \in CheckMinutes : m > clock_minute
       THEN /\ clock_minute' = CHOOSE m \in CheckMinutes :
                                 /\ m > clock_minute
                                 /\ \A k \in CheckMinutes : k > clock_minute => m <= k
            /\ today' = today
       ELSE /\ today < Today0 + MaxDays
            /\ clock_minute' = 0
            /\ today' = today + 1
  /\ UNCHANGED <<nwords, practice, today_practice, current_practice, stats,
                 results, streaks, answers, tasks, review, scheduled, streak_call,
                 call, skiplist, dialog, reminders, last>>

ReminderNext ==
  \/ \E c \in Chats, parsed_time \in RemindTimes : CmdRemind(c, parsed_time)
  \/ ProcessReminders
  \/ TimePasses

ReminderSpec == Init /\ [][ReminderNext]_vars

\* ------------------------------------------------ session_messages

\* STREAK_MILESTONES.get(streak_days): the label, or None
NoLabel == ""
get_streak_label(streak_days) ==
  CASE streak_days = 3 -> "Warm-Up Run"
    [] streak_days = 7 -> "Week Warrior"
    [] streak_days = 14 -> "Fortnight Force"
    [] streak_days = 21 -> "Habit Locked"
    [] streak_days = 30 -> "Month Master"
    [] streak_days = 40 -> "Momentum Maker"
    [] streak_days = 60 -> "Two-Month Titan"
    [] streak_days = 90 -> "Seasoned Streak"
    [] streak_days = 120 -> "Quarter Champion"
    [] streak_days = 180 -> "Half-Year Hero"
    [] streak_days = 240 -> "Eight-Month Engine"
    [] streak_days = 300 -> "Three-Hundred Club"
    [] streak_days = 365 -> "Year Legend"
    [] OTHER -> NoLabel

\* the fire emoji U+1F525 of the source is written (fire) here
format_streak_line(streak_days) ==
  LET day_label == IF streak_days = 1 THEN "day" ELSE "days"
      label == get_streak_label(streak_days)
  IN  IF label # NoLabel
        THEN "(fire) Streak: " \o ToString(streak_days) \o " " \o day_label
               \o " (" \o label \o ")"
        ELSE "(fire) Streak: " \o ToString(streak_days) \o " " \o day_label

\* stats=None and streak_days=None
NoStats == [correct |-> 0 - 1, total |-> 0 - 1]
NoStreakDays == 0 - 1

\* PracticeStats.accuracy_text
accuracy_text(st) == ToString(st.correct) \o "/" \o ToString(st.total)

\* the accuracy line is added whatever the total is
format_session_complete_message_anytotal(words_remaining, st, streak_days) ==
  IF words_remaining > 0
    THEN ToString(words_remaining) \o " words left"
    ELSE LET text0 == "Practiced all words!"
             text1 == IF st # NoStats
                        THEN text0 \o "\n" \o accuracy_text(st)
                               \o " of words were guessed correctly"
                        ELSE text0
         IN  IF streak_days # NoStreakDays
               THEN text1 \o "\n" \o format_streak_line(streak_days)
               ELSE text1

format_session_complete_message(words_remaining, st, streak_days) ==
  IF words_remaining > 0
    THEN ToString(words_remaining) \o " words left"
    ELSE LET text0 == "Practiced all words!"
             text1 == IF st # NoStats /\ st.total > 0
                        THEN text0 \o "\n" \o accuracy_text(st)
                               \o " of words were guessed correctly"
                        ELSE text0
         IN  IF streak_days # NoStreakDays
               THEN text1 \o "\n" \o format_streak_line(streak_days)
               ELSE text1

StatsArguments ==
  {NoStats} \cup {[correct |-> c, total |-> t] : c \in 0..MaxTotal, t \in 0..MaxTotal}
StreakDayArguments == {NoStreakDays, 0, 1, 2, 3, 7, 365}

FormatSessionCompleteMessage(words_remaining, st, streak_days) ==
  /\ call.fn = "none"
  /\ call' = [fn |-> "format_session_complete_message",
              words_remaining |-> words_remaining, stats |-> st,
              streak_days |-> streak_days,
              result |-> format_session_complete_message(words_remaining, st,
                                                         streak_days)]
  /\ UNCHANGED <<skiplist, dialog, reminders, clock_minute, today, nwords, practice, today_practice, current_practice, stats,
                 results, streaks, answers, tasks, review, scheduled, streak_call,
                 last>>

MessageNext ==
  /\ call.fn = "none"
  /\ \E words_remaining \in 0..MaxRemaining, st \in StatsArguments,
        streak_days \in StreakDayArguments :
          FormatSessionCompleteMessage(words_remaining, st, streak_days)

MessageSpec == StreakInit /\ [][MessageNext]_vars

\* ------------------------------------------------ generate_insights, alone

SeqsUpTo(S, n) == UNION {[1..k -> S] : k \in 0..n}

\* SessionWordResult entries around the know-by-heart threshold
CorrectEntries ==
  {[word_id |-> 1, old_stage |-> o, new_stage |-> nw] :
     o \in {KNOW_BY_HEART_STAGE - 1, KNOW_BY_HEART_STAGE},
     nw \in {KNOW_BY_HEART_STAGE - 1, KNOW_BY_HEART_STAGE, NoStage}}
IncorrectEntries ==
  {[word_id |-> w, old_stage |-> 3, new_stage |-> 1] : w \in {2, 3}}
\* dict[int, int]: a word id may be missing from it
FailureMaps ==
  UNION {[D -> {MIN_CONSECUTIVE_FAILURES - 1, MIN_CONSECUTIVE_FAILURES}] :
           D \in SUBSET {2, 3}}
StatsInputs ==
  {[correct_words |-> cw, incorrect_words |-> iw,
    total_correct |-> t[1], total_count |-> t[2]] :
     cw \in SeqsUpTo(CorrectEntries, MaxEntries),
     iw \in SeqsUpTo(IncorrectEntries, MaxEntries - 1),
     t \in {<<0, 0>>, <<1, 2>>, <<2, 2>>}}
\* confident-word counts around the milestones
CountInputs == {0, 9, 10, 11, 24, 25, 26, 99, 100, 101, 102, 4999, 5000, 5001}

GenerateInsights(st, consecutive_failures, confident_count, previous_confident_count) ==
  /\ call.fn = "none"
  /\ call' = [fn |-> "generate_insights", stats |-> st,
              consecutive_failures |-> consecutive_failures,
              confident_count |-> confident_count,
              previous_confident_count |-> previous_confident_count,
              result |-> generate_insights(st, consecutive_failures, confident_count,
                                           previous_confident_count)]
  /\ UNCHANGED <<skiplist, dialog, reminders, clock_minute, today, nwords, practice, today_practice, current_practice, stats,
                 results, streaks, answers, tasks, review, scheduled, streak_call,
                 last>>

CheckMilestone(confident_count, previous_confident_count) ==
  /\ call.fn = "none"
  /\ call' = [fn |-> "check_milestone",
              confident_count |-> confident_count,
              previous_confident_count |-> previous_confident_count,
              result |-> check_milestone(confident_count, previous_confident_count)]
  /\ UNCHANGED <<skiplist, dialog, reminders, clock_minute, today, nwords, practice, today_practice, current_practice, stats,
                 results, streaks, answers, tasks, review, scheduled, streak_call,
                 last>>

InsightNext ==
  \/ /\ call.fn = "none"
     /\ \E st \in StatsInputs, cf \in FailureMaps, counts \in {<<9, 9>>, <<10, 9>>, <<9, 10>>} :
          GenerateInsights(st, cf, counts[1], counts[2])
  \/ /\ call.fn = "none"
     /\ \E confident_count \in CountInputs, previous_confident_count \in CountInputs :
          CheckMilestone(confident_count, previous_confident_count)

InsightSpec == StreakInit /\ [][InsightNext]_vars

TypeOK ==
  /\ \/ today \in Today0..(Today0 + MaxDays)
     \/ today \in Today0..(Today0 + MaxGap)
     \/ today = ReviewDay
  /\ nwords \in 0..MaxWords \/ nwords = AgedWords
  /\ answers \in 0..MaxAnswers

\* ------------------------------------------------------------------ claims

Words == 1..nwords
Draws == {0, 1}
SessionRow(c, w) == [chat_id |-> c, word_id |-> w]
LiveRows(c) == {i \in 1..Len(practice) : practice[i].chat_id = c /\ ~practice[i].deleted}

\* C1: after any sequence of /add, /practice and answer handlers every
\* word_practice row has its stage within 0..MAX_STAGE.
C1_StageInRange ==
  \A i \in 1..Len(practice) : practice[i].stage \in 0..MAX_STAGE

C1_Witness ==
  /\ last.op = "correct" /\ last.error = "none"
  /\ \E i \in 1..Len(practice) :
       /\ practice[i].chat_id = last.chat /\ practice[i].word_id = last.word
       /\ practice[i].stage = 22

\* C2: mark_correct on a record of stage s leaves it at stage
\* ns = min(s + 1, MAX_STAGE), due on today + daysUntilReview(ns): tomorrow
\* for ns = 1, in 2^(ns-1) + r days otherwise (4 or 5 days for ns = 3).
C2_CorrectAdvancesStage ==
  \A c \in Chats, w \in Words, r \in Draws :
    \A pw \in get_practice_word(DB, c, w) :
      LET ns == Min(practice[pw].stage + 1, MAX_STAGE)
          res == mark_correct(DB, c, w, pw, r, today)
      IN  /\ res.db.practice[pw].stage = ns
          /\ res.db.practice[pw].next_date =
               today + (IF ns = 1 THEN 1 ELSE Pow2(ns - 1) + r)

\* C3: mark_incorrect on a record of any stage completes and leaves it at
\* stage 1, never 0, due exactly one day after the answer date.
C3_IncorrectResetsToStageOne ==
  \A c \in Chats, w \in Words, r \in Draws :
    \A pw \in get_practice_word(DB, c, w) :
      LET res == mark_incorrect(DB, c, w, pw, r, today)
      IN  /\ res.error = "none"
          /\ res.db.practice[pw].stage = 1
          /\ res.db.practice[pw].next_date = today + 1

C3_Witness ==
  /\ last.op = "incorrect" /\ last.error = "none"
  /\ \E i \in 1..Len(practice) :
       /\ practice[i].chat_id = last.chat /\ practice[i].word_id = last.word
       /\ practice[i].stage = 1 /\ practice[i].next_date = today + 1
  /\ \E x \in results :
       /\ x.chat_id = last.chat /\ x.word_id = last.word
       /\ x.result = "incorrect" /\ x.old_stage = 4

\* C4: calculate_next_date succeeds for every stage 0..MAX_STAGE on today's
\* date, and mark_correct on a record at MAX_STAGE completes without error,
\* keeps the stage and removes the word from the session.
C4_NextDateNeverOverflows ==
  /\ \A s \in 0..MAX_STAGE, r \in Draws :
       calculate_next_date(today, s, r).error = "none"
  /\ \A c \in Chats, w \in Words, r \in Draws :
       \A pw \in get_practice_word(DB, c, w) :
         practice[pw].stage = MAX_STAGE =>
           LET res == mark_correct(DB, c, w, pw, r, today)
           IN  /\ res.error = "none"
               /\ res.db.practice[pw].stage = MAX_STAGE
               /\ w \notin InCurrentPractice(res.db, c)

\* C5: an answer "correct" raises the chat's correct and total counters by
\* one each, "incorrect" raises total only and "delete" leaves both.
C5_StatsCountAnswers ==
  \A c \in Chats, w \in Words, r \in Draws :
    \A pw \in get_practice_word(DB, c, w) :
      LET st == get_statistics(DB, c)
          after(a) == get_statistics(answer(DB, c, w, a, pw, r, today).db, c)
      IN  /\ after("correct") = [st EXCEPT !.correct = @ + 1, !.total = @ + 1]
          /\ after("incorrect") = [st EXCEPT !.total = @ + 1]
          /\ after("delete") = st

\* C6: mark_correct resets the record's consecutive_failures to 0 and
\* mark_incorrect raises it by exactly one.
C6_FailuresCounted ==
  \A c \in Chats, w \in Words, r \in Draws :
    \A pw \in get_practice_word(DB, c, w) :
      /\ mark_correct(DB, c, w, pw, r, today).db.practice[pw].consecutive_failures = 0
      /\ mark_incorrect(DB, c, w, pw, r, today).db.practice[pw].consecutive_failures
           = practice[pw].consecutive_failures + 1

\* C7 (state part): a deleted row is in no pool that can be created now, in
\* no batch start_practice_session can return, is not the next presented
\* word, and is counted neither by count_words_to_practice nor by
\* count_confident_words.
C7_Hidden ==
  \A c \in Chats :
    /\ \A pool_pick \in PoolPicks(DB, c, today) :
         /\ pool_pick \subseteq LiveRows(c)
         /\ \A batch_pick \in get_words_to_practice(
                 EnsurePool(DB, c, pool_pick, today), c, practice_batch_size, today) :
              batch_pick \subseteq LiveRows(c)
    /\ get_next_practice_word(DB, c) \subseteq LiveRows(c)
    /\ count_words_to_practice(DB, c, today) =
         Cardinality({i \in LiveRows(c) :
            /\ [word_practice_id |-> i, date |-> today] \in today_practice
            /\ practice[i].next_date <= today})
    /\ count_confident_words(DB, c) =
         Cardinality({i \in LiveRows(c) : practice[i].stage >= CONFIDENT_STAGE})

\* C7 (step part): a deleted row stays stored and deleted, and no step puts a
\* deleted row into the pool or its word into the session.
C7_StaysDeleted ==
  /\ \A i \in 1..Len(practice) :
       practice[i].deleted =>
         /\ i <= Len(practice')
         /\ practice'[i].deleted
         /\ practice'[i].chat_id = practice[i].chat_id
         /\ practice'[i].word_id = practice[i].word_id
  /\ \A tp \in today_practice' \ today_practice :
       ~practice'[tp.word_practice_id].deleted
  /\ \A cp \in current_practice' \ current_practice :
       \E i \in 1..Len(practice') :
         /\ practice'[i].chat_id = cp.chat_id /\ practice'[i].word_id = cp.word_id
         /\ ~practice'[i].deleted

\* C7: once mark_deleted has been applied to a record it stays stored with
\* deleted = TRUE and is hidden from every later selection and count.
C7_DeletedStaysHidden == []C7_Hidden /\ [][C7_StaysDeleted]_vars

C7_Witness ==
  /\ last.op = "practice"
  /\ \E i \in 1..Len(practice) :
       /\ practice[i].chat_id = last.chat
       /\ practice[i].deleted
       /\ practice[i].next_date <= today
       /\ [word_practice_id |-> i, date |-> today] \in today_practice
  /\ InCurrentPractice(DB, last.chat) # {}

C9_OneResultPerAnswer ==
  \A c \in Chats, w \in Words, a \in Actions, r \in Draws :
    \A pw \in get_practice_word(DB, c, w) :
      LET res == answer(DB, c, w, a, pw, r, today)
          rows == {x \in res.db.results : x.chat_id = c /\ x.word_id = w}
      IN  /\ Cardinality(rows) = 1
          /\ \A x \in rows :
               /\ x.old_stage = practice[pw].stage
               /\ x.new_stage = IF a = "delete" THEN NoStage
                                ELSE res.db.practice[pw].stage

\* C10 (as claimed): a pool /practice has ensured today, also one holding no
\* record, is reused unchanged by a later /practice of the same day, here
\* after the chat has added a word in between.
C10_PoolReusedAfterAdd ==
  \A c \in Chats :
    \A p1 \in PoolPicks(DB, c, today) :
      \A b1 \in get_words_to_practice(EnsurePool(DB, c, p1, today),
                                       c, practice_batch_size, today) :
        LET d1 == cmd_practice(DB, c, p1, b1, today)
            d2 == cmd_add_word(d1, c, today)
        IN  \A p2 \in PoolPicks(d2, c, today) :
              get_today_practice(EnsurePool(d2, c, p2, today), c, today)
                = get_today_practice(d1, c, today)

\* C10 (amended): once a chat's pool of today holds at least one record, the
\* pool's membership never changes for the rest of the day.
C10_NonEmptyPoolUnchanged ==
  [][\A c \in Chats :
       (get_today_practice(DB, c, today) # {} /\ today' = today) =>
         get_today_practice(DB', c, today') = get_today_practice(DB, c, today)]_vars

\* /practice ran on a pool one of whose members has been answered since the
\* pool was created, while a due record of the chat is outside the pool.
C10_Witness ==
  /\ last.op = "practice"
  /\ \E i \in get_today_practice(DB, last.chat, today) : practice[i].next_date > today
  /\ EligibleForPool(DB, last.chat, today) \ get_today_practice(DB, last.chat, today) # {}

\* C11: a pool created now for a chat that has none consists of rows of the
\* chat that are not deleted and due, and holds min(k, number of such rows)
\* of them for one k of daily_pool_min..daily_pool_max; and today's pool of
\* a chat never holds more than daily_pool_max rows.
C11_PoolCreation ==
  \A c \in Chats :
    /\ Cardinality(get_today_practice(DB, c, today)) <= daily_pool_max
    /\ get_today_practice(DB, c, today) = {} =>
         LET eligible == {i \in 1..Len(practice) : /\ practice[i].chat_id = c
                                                   /\ ~practice[i].deleted
                                                   /\ practice[i].next_date <= today}
         IN  \A pool_pick \in PoolPicks(DB, c, today) :
               LET created == get_today_practice(
                                EnsurePool(DB, c, pool_pick, today), c, today)
               IN  /\ created \subseteq eligible
                   /\ \E k \in daily_pool_min..daily_pool_max :
                        Cardinality(created) = Min(k, Cardinality(eligible))

\* /practice has created a pool of daily_pool_max rows for a chat that has
\* more due rows than that.
C11_Witness ==
  /\ last.op = "practice"
  /\ Cardinality(get_today_practice(DB, last.chat, today)) = daily_pool_max
  /\ Cardinality(EligibleForPool(DB, last.chat, today)) > daily_pool_max

\* C12: start_practice_session returns at most practice_batch_size rows,
\* each a row of the chat in today's pool that is due, not deleted and whose
\* word is not in the session yet; afterwards every returned word is in the
\* session; and it returns nothing only when there is no such row.
C12_SessionBatch ==
  \A c \in Chats :
    \A pool_pick \in PoolPicks(DB, c, today) :
      LET d1 == EnsurePool(DB, c, pool_pick, today)
          candidates ==
            {i \in 1..Len(practice) :
               /\ practice[i].chat_id = c
               /\ i \in get_today_practice(d1, c, today)
               /\ practice[i].next_date <= today
               /\ ~practice[i].deleted
               /\ SessionRow(c, practice[i].word_id) \notin current_practice}
      IN  \A batch_pick \in get_words_to_practice(d1, c, practice_batch_size, today) :
            LET d2 == start_practice_session(DB, c, pool_pick, batch_pick, today)
            IN  /\ Cardinality(batch_pick) <= practice_batch_size
                /\ batch_pick \subseteq candidates
                /\ \A i \in batch_pick :
                     SessionRow(c, practice[i].word_id) \in d2.current_practice
                /\ batch_pick = {} => candidates = {}

\* /practice has filled a session with practice_batch_size words and left a
\* due pool member outside it.
C12_Witness ==
  /\ last.op = "practice"
  /\ Cardinality(InCurrentPractice(DB, last.chat)) = practice_batch_size
  /\ WordsToPracticeRows(DB, last.chat, today) # {}

\* the chat's rows in today's pool that are due and not deleted
RemainingInPool(d, c) ==
  {i \in 1..Len(d.practice) :
     /\ d.practice[i].chat_id = c
     /\ [word_practice_id |-> i, date |-> today] \in d.today_practice
     /\ d.practice[i].next_date <= today
     /\ ~d.practice[i].deleted}

\* C13: when a finish handler completes and leaves the chat's session empty:
\* if no due row remains in today's pool, the chat's statistics are zero and
\* it has no session_word_results afterwards; otherwise both are exactly as
\* the answer left them.
C13_FinalizeWhenPoolExhausted ==
  \A c \in Chats, w \in Words :
    \A pw \in get_practice_word(DB, c, w) :
      \A a \in Actions, r \in Draws :
        LET mid == answer(DB, c, w, a, pw, r, today)
            res == callback_finish(DB, c, w, a, pw, r, today)
        IN  (res.error = "none" /\ InCurrentPractice(res.db, c) = {}) =>
              IF RemainingInPool(mid.db, c) = {}
                THEN /\ get_statistics(res.db, c).correct = 0
                     /\ get_statistics(res.db, c).total = 0
                     /\ get_session_results(res.db, c) = {}
                ELSE /\ get_statistics(res.db, c) = get_statistics(mid.db, c)
                     /\ get_session_results(res.db, c) = get_session_results(mid.db, c)

\* The answer of the last session member has exhausted the chat's pool of
\* today and the session data is gone.
C13_Witness ==
  /\ last.op \in Actions /\ last.error = "none" /\ last.member
  /\ InCurrentPractice(DB, last.chat) = {}
  /\ get_today_practice(DB, last.chat, today) # {}
  /\ RemainingInPool(DB, last.chat) = {}
  /\ get_statistics(DB, last.chat).total = 0
  /\ get_session_results(DB, last.chat) = {}

\* C14: once the answer of the last session member has exhausted the chat's
\* pool of today (the state in which the handler finalizes the day), the
\* chat's practice_streaks row has last_active_date = today and
\* current_streak >= 1.
C14_FinalizationUpdatesStreak ==
  (/\ last.op \in Actions /\ last.error = "none" /\ last.member
   /\ InCurrentPractice(DB, last.chat) = {}
   /\ RemainingInPool(DB, last.chat) = {})
    => \E s \in streaks : /\ s.chat_id = last.chat
                          /\ s.last_active_date = today
                          /\ s.current_streak >= 1

\* C15: the user answers every presented word, so the session empties and
\* the pool is exhausted only if each answer makes progress: for every
\* presented word, whatever its stage, each of the three outcomes completes
\* and takes the word out of the session.
C15_PresentedAnswerProgresses ==
  \A c \in Chats :
    \A shown \in get_next_practice_word(DB, c) :
      \A pw \in PracticeWordPicks(DB, c, practice[shown].word_id) :
        \A a \in Actions, r \in Draws :
          LET w == practice[shown].word_id
              res == callback_finish(DB, c, w, a, pw, r, today)
          IN  /\ res.error = "none"
              /\ w \notin InCurrentPractice(res.db, c)

\* What the four tables of C17 hold for one chat.
ChatState(d, c) ==
  [practice |-> {d.practice[i] : i \in {j \in RowIds(d) : d.practice[j].chat_id = c}},
   results  |-> get_session_results(d, c),
   stats    |-> get_statistics(d, c),
   session  |-> InCurrentPractice(d, c)]

\* The stages one answer can leave a record of stage s at.
OneTransition(s) == {s, get_new_stage_correct(s), get_new_stage_incorrect}

\* C16: two answer submissions for the same chat and word, both accepted
\* while the word was in the session, in any interleaving of their repository
\* statements raise SessionStats.total by at most 1 and advance the record's
\* stage by at most one transition.
C16_NoDoubleCount ==
  \A t \in 1..NumTasks, u \in 1..NumTasks :
    ( /\ t < u
      /\ tasks[t].chat = tasks[u].chat
      /\ tasks[t].word = tasks[u].word
      /\ tasks[t].action \in {"correct", "incorrect"}
      /\ tasks[u].action \in {"correct", "incorrect"}
      /\ tasks[t].pc = "remove"
      /\ tasks[u].pc = "remove" )
    => LET c == tasks[t].chat
           w == tasks[t].word
           b == tasks[t].before
       IN  /\ get_statistics(DB, c).total <= get_statistics(b, c).total + 1
           /\ \A i \in get_practice_word(DB, c, w) :
                practice[i].stage \in OneTransition(b.practice[i].stage)

\* C17: when a repository statement of an answer fails, the chat's practice
\* records, session results, statistics and session are exactly as they were
\* when the answer was submitted.
C17_FailureLeavesStateAsBefore ==
  \A t \in 1..NumTasks :
    ( /\ tasks[t].pc = "failed"
      /\ \A u \in 1..NumTasks \ {t} : tasks[u].pc = "idle" )
    => ChatState(DB, tasks[t].chat) = ChatState(tasks[t].before, tasks[t].chat)

\* C18: an answer for a word that is not in the chat's active session (or has
\* no live practice record) is surfaced as an error (RecordNotFound in the
\* claim; any error is accepted here) and changes no state.
C18_AnswerOutsideSessionRejected ==
  \A c \in Chats, w \in Words :
    w \notin InCurrentPractice(DB, c) =>
      \A pw \in PracticeWordPicks(DB, c, w), action \in Actions, r \in Draws :
        LET res == callback_finish(DB, c, w, action, pw, r, today)
        IN  /\ res.error # "none"
            /\ res.db = DB

\* Everything the tables hold for one chat: its practice records, its daily
\* pool rows, its session, its statistics, its session results, its streak.
ChatView(d, c) ==
  [practice |-> [i \in {j \in RowIds(d) : d.practice[j].chat_id = c} |-> d.practice[i]],
   pool     |-> {tp \in d.today_practice :
                   d.practice[tp.word_practice_id].chat_id = c},
   session  |-> {x \in d.current_practice : x.chat_id = c},
   stats    |-> {x \in d.stats : x.chat_id = c},
   results  |-> {x \in d.results : x.chat_id = c},
   streak   |-> {x \in d.streaks : x.chat_id = c}]

\* C19: an operation of one chat (add word, /practice, answer with its
\* finalization, reset) changes nothing that the tables hold for any other
\* chat, also when both chats practise the same word.
C19_OtherChatsUntouched ==
  [][last'.op # "tick" =>
       \A c \in Chats \ {last'.chat} : ChatView(DB, c)' = ChatView(DB, c)]_vars

C19_Witness ==
  /\ last.op \in Actions
  /\ last.error = "none"
  /\ \E c \in Chats \ {last.chat} : get_practice_word(DB, c, last.word) # {}

\* 2^(n-1) + r written in limbs without any arithmetic on limbs
ExpectedDays(n, r) ==
  IF n - 1 < LimbBits THEN [hi |-> 0, lo |-> Pow2(n - 1) + r]
  ELSE [hi |-> Pow2(n - 1 - LimbBits), lo |-> r]

\* C20: calculate_days_until_review(0) is 0 and (1) is 1, both without a
\* random draw; for 1 < n <= MAX_STAGE it is 2^(n-1) + r for exactly one draw
\* r from {0, 1}.
C20_DaysUntilReview ==
  (review.calls > 0 /\ review.stage \in 0..MAX_STAGE) =>
    /\ review.frac_bits = 0
    /\ review.stage = 0 => review.days = Big(0) /\ review.draws = 0
    /\ review.stage = 1 => review.days = Big(1) /\ review.draws = 0
    /\ review.stage > 1 =>
         /\ review.days = ExpectedDays(review.stage, review.r)
         /\ review.draws = 1

C20_Witness ==
  /\ review.calls > 0
  /\ review.stage = MAX_STAGE
  /\ review.r = 1
  /\ review.days = [hi |-> 4, lo |-> 1]

\* C21: calculate_days_until_review clamps the stage to 0..MAX_STAGE: above
\* MAX_STAGE the result is that of MAX_STAGE under the same draw, below 0 it
\* is that of stage 0, the integer 0.
C21_StageClamped ==
  review.calls > 0 =>
    /\ review.stage > MAX_STAGE =>
         LET top == calculate_days_until_review(MAX_STAGE, review.r)
         IN  /\ review.days = top.days
             /\ review.frac_bits = top.frac_bits
             /\ review.draws = top.draws
    /\ review.stage < 0 =>
         /\ review.days = Big(0)
         /\ review.frac_bits = 0
         /\ review.draws = 0

\* the day after (y, m, d) in the civil calendar
NextDay(ymd) ==
  IF ymd[3] < days_in_month(ymd[1], ymd[2]) THEN <<ymd[1], ymd[2], ymd[3] + 1>>
  ELSE IF ymd[2] < 12 THEN <<ymd[1], ymd[2] + 1, 1>>
  ELSE <<ymd[1] + 1, 1, 1>>

\* the whole days calculate_days_until_review gives, for intervals within
\* one limb
WholeDays(stage, r) == calculate_days_until_review(stage, r).days.lo

\* C22: for every base date and every stage 0..MAX_STAGE calculate_next_date
\* returns midnight of the date base_date + calculate_days_until_review(stage):
\* the base date itself for stage 0, the next calendar day for stage 1, also
\* across the end of a month and of a year.
C22_NextDateIsMidnightOfTargetDate ==
  (/\ scheduled.calls > 0
   /\ scheduled.tz = NoTz
   /\ scheduled.stage \in 0..MAX_STAGE
   /\ scheduled.base_date < DATE_MAX_ORDINAL) =>
     LET res == scheduled.result
     IN  /\ res.error = "none"
         /\ res.seconds = 0
         /\ res.value = scheduled.base_date + WholeDays(scheduled.stage, scheduled.r)
         /\ scheduled.stage = 0 => ord2ymd(res.value) = ord2ymd(scheduled.base_date)
         /\ scheduled.stage = 1 =>
              ord2ymd(res.value) = NextDay(ord2ymd(scheduled.base_date))

\* C23: calculate_next_date accepts an optional timezone: with one the result
\* is the aware midnight of the target date in that zone, without one it is
\* a naive datetime.
C23_TimezoneAccepted ==
  (/\ scheduled.calls > 0
   /\ scheduled.stage \in 0..1
   /\ scheduled.base_date < DATE_MAX_ORDINAL) =>
     LET res == scheduled.result
     IN  /\ res.error = "none"
         /\ res.tzinfo = scheduled.tz
         /\ res.seconds = 0
         /\ res.value = scheduled.base_date + scheduled.stage

\* C24: compute_streak_update returns (1, today) without prior activity,
\* (max(current, 1), today) when the last activity is today or after today,
\* and (1, today) when it is two or more days before today; the returned
\* streak is always >= 1 and the returned date is always today.
C24_StreakCases ==
  streak_call.calls > 0 =>
    LET la == streak_call.last_active
        cur == streak_call.current_streak
        now == streak_call.now
    IN  /\ streak_call.streak >= 1
        /\ streak_call.new_last_active = now
        /\ la = NoDate => streak_call.streak = 1
        /\ (la # NoDate /\ la >= now) => streak_call.streak = Max(cur, 1)
        /\ (la # NoDate /\ la <= now - 2) => streak_call.streak = 1

\* a streak of 3 was kept although the last activity is dated after today
C24_Witness ==
  /\ streak_call.calls > 0
  /\ streak_call.last_active # NoDate
  /\ streak_call.last_active > streak_call.now
  /\ streak_call.current_streak = MaxStreak
  /\ streak_call.streak = MaxStreak

\* C25 (as claimed): when the last activity is exactly one day before today
\* the result is (current_streak + 1, today) for every current_streak >= 0.
C25_NextDayIncrementsByOne ==
  (/\ streak_call.calls > 0
   /\ streak_call.last_active # NoDate
   /\ streak_call.last_active = streak_call.now - 1) =>
     /\ streak_call.streak = streak_call.current_streak + 1
     /\ streak_call.new_last_active = streak_call.now

\* C25 (amended): when the last activity is exactly one day before today the
\* result is (max(current_streak, 1) + 1, today): current_streak + 1 for
\* every current_streak >= 1, and 2 for current_streak = 0.
C25_NextDayIncrementsFlooredStreak ==
  (/\ streak_call.calls > 0
   /\ streak_call.last_active # NoDate
   /\ streak_call.last_active = streak_call.now - 1) =>
     /\ streak_call.streak = Max(streak_call.current_streak, 1) + 1
     /\ streak_call.current_streak >= 1 =>
          streak_call.streak = streak_call.current_streak + 1
     /\ streak_call.current_streak = 0 => streak_call.streak = 2
     /\ streak_call.new_last_active = streak_call.now

C25_Witness ==
  /\ streak_call.calls > 0
  /\ streak_call.last_active = streak_call.now - 1
  /\ streak_call.current_streak = 0
  /\ streak_call.streak = 2

\* C26: update_streak applied twice with the same date leaves the same
\* practice_streaks row as applied once.
C26_StreakUpdateIdempotent ==
  \A c \in Chats :
    LET once == update_streak(DB, c, today)
    IN  /\ update_streak(once, c, today) = once
        /\ StreakRow(DB, c).last_active_date = today =>
             StreakRow(once, c).current_streak
               = Max(StreakRow(DB, c).current_streak, 1)

\* update_streak has run a second time on a day and the streak of 2 stayed
C26_Witness ==
  /\ streak_call.chat \in Chats
  /\ streak_call.last_active = today
  /\ streak_call.now = today
  /\ streak_call.current_streak = 2
  /\ StreakRow(DB, streak_call.chat)
       = [current_streak |-> 2, last_active_date |-> today]

\* the entries of a list that satisfy a rule of C27, in the order of the list
CrossedKnowByHeart(words) ==
  LET Crossed(w) == w.old_stage < 7 /\ w.new_stage # NoStage /\ w.new_stage >= 7
  IN  SelectSeq(words, Crossed)
Struggling(words, consecutive_failures) ==
  LET Fails(w) == /\ w.word_id \in DOMAIN consecutive_failures
                  /\ consecutive_failures[w.word_id] >= 2
  IN  SelectSeq(words, Fails)
\* the milestones of C28 that a change of the confident count crosses
CrossedMilestones(previous_confident_count, confident_count) ==
  {m \in {10, 25, 50, 100, 200, 300, 400, 500, 750, 1000, 1500, 2000, 3000, 5000} :
     previous_confident_count < m /\ m <= confident_count}

\* C27: generate_insights returns, in this order and nothing else: the
\* perfect-round insight iff total_count > 0 and total_correct = total_count;
\* one know-by-heart insight per correct word with old_stage < 7 <= new_stage;
\* one struggling insight per incorrect word with 2 or more consecutive
\* failures (0 when the word is not in the map); the milestone insight if one
\* is crossed.
C27_InsightRules ==
  call.fn = "generate_insights" =>
    LET st == call.stats
        res == call.result
        perfect == IF st.total_count > 0 /\ st.total_correct = st.total_count
                     THEN 1 ELSE 0
        heart == CrossedKnowByHeart(st.correct_words)
        hard == Struggling(st.incorrect_words, call.consecutive_failures)
        crossed == CrossedMilestones(call.previous_confident_count, call.confident_count)
        trophy == IF crossed # {} THEN 1 ELSE 0
    IN  /\ Len(res) = perfect + Len(heart) + Len(hard) + trophy
        /\ perfect = 1 => res[1] = Insight("target", <<st.total_correct, st.total_count>>)
        /\ \A i \in 1..Len(heart) :
             res[perfect + i] = Insight("star", <<heart[i].word_id>>)
        /\ \A i \in 1..Len(hard) :
             res[perfect + Len(heart) + i] = Insight("bulb", <<hard[i].word_id>>)
        /\ trophy = 1 => res[Len(res)].emoji = "trophy"

\* a call in which all four rules trigger
C27_Witness ==
  /\ call.fn = "generate_insights"
  /\ Len(call.result) >= 4
  /\ call.result[1].emoji = "target"
  /\ call.result[2].emoji = "star"
  /\ call.result[Len(call.result) - 1].emoji = "bulb"
  /\ call.result[Len(call.result)].emoji = "trophy"

\* C28: the milestone rule gives at most one insight; it gives one iff the
\* confident count crosses a milestone (previous < m <= current), and then
\* for the smallest milestone crossed.
C28_SmallestMilestoneCrossed ==
  call.fn = "check_milestone" =>
    LET crossed == CrossedMilestones(call.previous_confident_count, call.confident_count)
    IN  /\ Len(call.result) <= 1
        /\ (call.result # << >>) <=> (crossed # {})
        /\ call.result # << >> =>
             /\ call.result[1].emoji = "trophy"
             /\ call.result[1].text[1] \in crossed
             /\ \A m \in crossed : call.result[1].text[1] <= m
        /\ (call.previous_confident_count = 99 /\ call.confident_count = 100) =>
             call.result = <<Insight("trophy", <<100>>)>>
        /\ (call.previous_confident_count = 101 /\ call.confident_count = 102) =>
             call.result = << >>
        /\ call.confident_count <= call.previous_confident_count =>
             call.result = << >>

\* a jump from 9 to 102 confident words reports the milestone 10 only
C28_Witness ==
  /\ call.fn = "check_milestone"
  /\ call.previous_confident_count = 9
  /\ call.confident_count = 102
  /\ call.result = <<Insight("trophy", <<10>>)>>

\* Python's str.startswith and the in operator on strings
StartsWith(text, prefix) ==
  Len(text) >= Len(prefix) /\ SubSeq(text, 1, Len(prefix)) = prefix
Contains(text, part) ==
  \E i \in 1..(Len(text) - Len(part) + 1) : SubSeq(text, i, i + Len(part) - 1) = part

\* C29: with words remaining the message is exactly "<remaining> words left"
\* whatever stats and streak are passed; with none remaining it starts with
\* "Practiced all words!", has the accuracy line "<correct>/<total> of words
\* were guessed correctly" iff stats is given with total > 0, and has the
\* streak line iff a streak is given.
C29_SessionCompleteMessage ==
  call.fn = "format_session_complete_message" =>
    IF call.words_remaining > 0
      THEN call.result = ToString(call.words_remaining) \o " words left"
      ELSE /\ StartsWith(call.result, "Practiced all words!")
           /\ Contains(call.result, "of words were guessed correctly")
                <=> (call.stats # NoStats /\ call.stats.total > 0)
           /\ (call.stats # NoStats /\ call.stats.total > 0) =>
                Contains(call.result,
                         ToString(call.stats.correct) \o "/" \o ToString(call.stats.total)
                           \o " of words were guessed correctly")
           /\ Contains(call.result, "Streak: ") <=> (call.streak_days # NoStreakDays)
           /\ call.streak_days # NoStreakDays =>
                Contains(call.result, format_streak_line(call.streak_days))

\* all words done, stats with a zero total and a streak: the streak line
\* follows the opening line directly
C29_Witness ==
  /\ call.fn = "format_session_complete_message"
  /\ call.words_remaining = 0
  /\ call.stats = [correct |-> 0, total |-> 0]
  /\ call.streak_days = 7
  /\ call.result = "Practiced all words!\n(fire) Streak: 7 days (Week Warrior)"

\* the word_practice rows of a word
RowsOfWord(d, word_id) == {i \in RowIds(d) : d.practice[i].word_id = word_id}

\* C30: adding a custom word pair creates two words and, for each of them, one
\* record of the adding chat with stage 0, deleted = FALSE and next_date =
\* now; the record is eligible for a daily pool of that chat created today or
\* on any later day.
C30_AddedRecordsEligible ==
  [][nwords' # nwords =>
       /\ last'.op = "add"
       /\ nwords' = nwords + 2
       /\ \A w \in (nwords + 1)..(nwords + 2) :
            /\ Cardinality(RowsOfWord(DB, w)') = 1
            /\ \A i \in RowsOfWord(DB, w)' :
                 /\ practice'[i] = [word_id |-> w, chat_id |-> last'.chat,
                                    next_date |-> today, stage |-> 0,
                                    deleted |-> FALSE, consecutive_failures |-> 0]
                 /\ \A c \in Chats, later \in today..(Today0 + MaxDays) :
                      c = last'.chat => i \in EligibleForPool(DB, c, later)']_vars

\* a pool created the day after the pair was added holds an added record
C30_Witness ==
  /\ nwords = 2
  /\ Len(practice) = 2
  /\ today > Today0
  /\ \E tp \in today_practice :
       /\ tp.date = today
       /\ practice[tp.word_practice_id].word_id \in 1..2
       /\ practice[tp.word_practice_id].next_date = Today0
       /\ practice[tp.word_practice_id].stage = 0

\* the words a chat has a word_practice record of, deleted or not
PracticeWords(d, chat_id) ==
  {d.practice[i].word_id : i \in {j \in RowIds(d) : d.practice[j].chat_id = chat_id}}
Skipped(skip, chat_id) == {x.word_id : x \in {y \in skip : y.chat_id = chat_id}}

\* C31: no list that get_words_to_add may return for a chat holds a word the
\* chat has in its practice set (deleted or not) or in its skiplist; the
\* words chosen to learn in the finished dialogs are in the practice set,
\* the words chosen to skip are in the skiplist, and no list holds any of them.
C31_SuggestionsExcludeKnownWords ==
  \A c \in Chats :
    /\ dialog[c].chosen_learn \subseteq PracticeWords(DB, c)
    /\ dialog[c].chosen_skip \subseteq Skipped(skiplist, c)
    /\ \A words \in get_words_to_add(DB, skiplist, c, add_words_limit) :
         /\ SeqToSet(words) \cap PracticeWords(DB, c) = {}
         /\ SeqToSet(words) \cap Skipped(skiplist, c) = {}
         /\ SeqToSet(words) \cap (dialog[c].chosen_learn \cup dialog[c].chosen_skip) = {}

\* a chat finished a dialog in which it chose a word to learn and one to
\* skip, and a word is still left to offer
C31_Witness ==
  \E c \in Chats :
    /\ dialog[c].state = "none"
    /\ dialog[c].chosen_learn # {}
    /\ dialog[c].chosen_skip # {}
    /\ get_words_to_add(DB, skiplist, c, add_words_limit) # {<< >>}

\* C32: _calculate_next_reminder returns an instant strictly after now and at
\* most one day after it, with remind_time as its time of day: today's when
\* remind_time is later than the time of now, tomorrow's otherwise.
C32_NextReminderAfterNowWithinADay ==
  call.fn = "calculate_next_reminder" =>
    /\ call.result.minute = call.remind_time
    /\ call.result.day = (IF call.remind_time > call.now.minute
                            THEN call.now.day ELSE call.now.day + 1)
    /\ Instant(call.result) > Instant(call.now)
    /\ Instant(call.result) - Instant(call.now) <= MinutesPerDay

\* the chat has a record that is due and not deleted
HasDueWords(d, chat_id, now) ==
  \E i \in RowIds(d) : /\ d.practice[i].chat_id = chat_id
                       /\ d.practice[i].next_date <= now
                       /\ d.practice[i].deleted = FALSE

\* C33: right after a check of the reminder loop every chat whose reminder
\* was due and that has due words was sent a notification, and no reminder
\* is due any more: each due one was moved to the next day at its
\* remind_time.
C33_DueReminderSentAndRescheduled ==
  (call.fn = "process_reminders" /\ call.now = Now) =>
    /\ \A c \in call.due : HasDueWords(DB, c, today) => c \in call.sent
    /\ get_due_reminders(reminders, Now) = {}
    /\ \A r \in reminders :
         r.chat_id \in call.due =>
           r.next_remind = DateTime(today + 1, r.remind_time, 0)

\* C34: when a chat with no session result yet answers the presented word and
\* that answer ends the day's practice, the previous_confident_count the
\* handler computes for the insights is the chat's count of confident words
\* (stage >= 5, not deleted) of before the answer, whatever the outcome.
C34_PreviousConfidentCountIsCountBefore ==
  \A c \in Chats :
    get_session_results(DB, c) = {} =>
      \A shown \in get_next_practice_word(DB, c) :
        \A pw \in PracticeWordPicks(DB, c, practice[shown].word_id) :
          \A a \in Actions, r \in Draws :
            LET w == practice[shown].word_id
                res == answer(DB, c, w, a, pw, r, today)
            IN  ( /\ res.error = "none"
                  /\ get_next_practice_word(res.db, c) = {}
                  /\ count_words_to_practice(res.db, c, today) = 0 )
                => finalize_previous_confident_count(res.db, c) = count_confident_words(DB, c)

\* C35: the current session of a chat never holds more than
\* practice_batch_size words, also when /practice is run again before the
\* batch was answered.
C35_SessionWithinBatchSize ==
  \A c \in Chats : Cardinality(InCurrentPractice(DB, c)) <= practice_batch_size

\* C36: answering a word that is in today's pool and due, with any of the
\* three outcomes, lowers count_words_to_practice by exactly one and leaves
\* the word out of what get_words_to_practice can select today.
C36_AnsweredWordNotDueToday ==
  \A c \in Chats :
    \A i \in DueInPool(DB, c, today) :
      \A pw \in PracticeWordPicks(DB, c, practice[i].word_id) :
        \A a \in Actions, r \in Draws :
          LET w == practice[i].word_id
              res == answer(DB, c, w, a, pw, r, today)
          IN  /\ count_words_to_practice(res.db, c, today)
                   = count_words_to_practice(DB, c, today) - 1
              /\ \A j \in WordsToPracticeRows(res.db, c, today) :
                   res.db.practice[j].word_id # w

\* C37: on the first day, after any sequence of /practice, answers and
\* /reset, every word of a chat's current session has a record of that chat
\* that is in today's pool and is not deleted.
C37_SessionWordsInPoolAndLive ==
  today = Today0 =>
    \A cp \in current_practice :
      \E i \in RowIds(DB) :
        /\ practice[i].chat_id = cp.chat_id
        /\ practice[i].word_id = cp.word_id
        /\ practice[i].deleted = FALSE
        /\ [word_practice_id |-> i, date |-> today] \in today_practice

\* a chat deleted a word of its session and another word is still in it
C37_Witness ==
  /\ today = Today0
  /\ last.op = "delete" /\ last.error = "none" /\ last.member
  /\ \E cp \in current_practice : cp.chat_id = last.chat

\* C38: at every point the chat's statistics agree with its session results:
\* total is the number of results of kind correct or incorrect, correct the
\* number of kind correct.
C38_StatsAgreeWithResults ==
  \A c \in Chats :
    /\ get_statistics(DB, c).total =
         Cardinality({x \in get_session_results(DB, c) :
                        x.result \in {"correct", "incorrect"}})
    /\ get_statistics(DB, c).correct =
         Cardinality({x \in get_session_results(DB, c) : x.result = "correct"})

\* C39: a chat has at most one practice record per word: add_to_practice
\* called with a word that is already in the chat's practice set creates no
\* second record and leaves the existing record as it is.
C39_AddExistingWordNoSecondRecord ==
  \A c \in Chats : \A w \in PracticeWords(DB, c) :
    add_to_practice(DB, c, <<w>>, today).practice = DB.practice

\* ------------------------------------------- /reset next to a reminder
\* Sessions, answers and /reset of all chats; the first SetupChats chats may
\* also set a reminder and have their streak row written by update_streak.

SetupChats == 1

ResetInit == Init /\ nwords = AgedWords

\* update_streak(chat_id, today), when it writes something
StreakWritten(c) ==
  /\ update_streak(DB, c, today) # DB
  /\ Store(update_streak(DB, c, today))
  /\ UNCHANGED <<skiplist, dialog, reminders, clock_minute, call, streak_call,
                 scheduled, review, today, answers, tasks, last>>

ResetNext ==
  \/ \E c \in Chats : Practice(c)
  \/ \E c \in Chats, w \in 1..nwords, action \in Actions : Finish(c, w, action)
  \/ \E c \in Chats : Reset(c)
  \/ \E c \in 1..SetupChats, t \in RemindTimes : CmdRemind(c, t)
  \/ \E c \in 1..SetupChats : StreakWritten(c)

ResetSpec == ResetInit /\ [][ResetNext]_vars

\* C40: /reset leaves the chat with an empty current session and statistics
\* of 0/0, and changes no practice record, no row of today's pool, no streak
\* and no reminder.
C40_ResetClearsSessionOnly ==
  [][\A c \in Chats :
       Reset(c) =>
         /\ \A x \in current_practice' : x.chat_id # c
         /\ get_statistics(DB, c)'.total = 0
         /\ get_statistics(DB, c)'.correct = 0
         /\ practice' = practice
         /\ today_practice' = today_practice
         /\ streaks' = streaks
         /\ reminders' = reminders
         /\ \A x \in current_practice : x.chat_id # c => x \in current_practice'
         /\ \A s \in stats : s.chat_id # c => s \in stats']_vars

\* A /reset that ended a session of a chat with practice records, a pool of
\* today, a streak and a reminder.
C40_Witness ==
  \E c \in Chats :
    /\ last.op = "reset" /\ last.chat = c
    /\ \A x \in current_practice : x.chat_id # c
    /\ \A s \in stats : s.chat_id # c
    /\ PracticeWords(DB, c) # {}
    /\ \E i \in RowIds(DB) : practice[i].chat_id = c /\ practice[i].stage > 0
    /\ \E x \in today_practice : practice[x.word_practice_id].chat_id = c
    /\ \E s \in streaks : s.chat_id = c
    /\ \E r \in reminders : r.chat_id = c

====
